---- MODULE Spec2Model ----
(***************************************************************************)
(* A model of the voxidria vocal-biomarker engine.                         *)
(*                                                                         *)
(*   SpecScore     the risk scorer of run_vowel_pipeline                   *)
(*                 (backend/inference/services/vowel_pipeline.py)          *)
(*   SpecNonlinear the nonlinear measures of ml/test_pd_speech.py          *)
(*   SpecExtract   the feature extractors and the classifier's input       *)
(*   SpecReading   the reading-task metrics of backend/task_2/services     *)
(*   SpecRepeat    _d2 called twice on one signal in one process           *)
(*   SpecService   the /analyze and /generate-summary routes of            *)
(*                 backend/inference, with SpecServiceLive its fair form   *)
(*                                                                         *)
(* Real numbers are fixed-point integers; every unit is named where it is  *)
(* introduced.  A probability is an exact rational <<num, den>>.           *)
(***************************************************************************)
EXTENDS Integers, Sequences, FiniteSets, TLC

(***************************************************************************)
(* Generic helpers standing for Python built-ins.                          *)
(***************************************************************************)

\* Python 3 round(x) of the rational num/den (den > 0, num >= 0): the
\* nearest integer, an exact half going to the even neighbour.
PyRound(num, den) ==
    LET q == num \div den
        r == num % den
    IN  IF 2 * r < den THEN q
        ELSE IF 2 * r > den THEN q + 1
        ELSE IF q % 2 = 0 THEN q ELSE q + 1

\* round(val, 5) of a value held in units of 1e-6: the nearest multiple of
\* ten units, an exact half going to the even multiple.
Round5(v) ==
    LET q == v \div 10
        r == v % 10
    IN  IF r < 5 THEN 10 * q
        ELSE IF r > 5 THEN 10 * (q + 1)
        ELSE IF q % 2 = 0 THEN 10 * q ELSE 10 * (q + 1)

(***************************************************************************)
(* Numeric helpers of the nonlinear measures (ml/test_pd_speech.py).       *)
(* A signal is a sequence of integer sample values.  Logarithms, entropies *)
(* and the returned measures are in thousandths (milli).                   *)
(***************************************************************************)

Range(s) == {s[i] : i \in DOMAIN s}

SeqMin(s) == CHOOSE v \in Range(s) : \A w \in Range(s) : v <= w

SeqMax(s) == CHOOSE v \in Range(s) : \A w \in Range(s) : v >= w

SetMax(S) == CHOOSE v \in S : \A w \in S : v >= w

Abs(x) == IF x < 0 THEN -x ELSE x

RECURSIVE SeqSum(_)
SeqSum(s) == IF s = <<>> THEN 0 ELSE Head(s) + SeqSum(Tail(s))

\* The sum of f[d] over the finite domain D.
RECURSIVE FnSum(_, _)
FnSum(f, D) ==
    IF D = {} THEN 0
    ELSE LET d == CHOOSE e \in D : TRUE IN f[d] + FnSum(f, D \ {d})

\* x[:n]
Take(x, n) == IF Len(x) <= n THEN x ELSE SubSeq(x, 1, n)

\* np.clip(x, lo, hi)
Clip(x, lo, hi) == IF x < lo THEN lo ELSE IF x > hi THEN hi ELSE x

\* 1000 * ln(k) for k = 1..256, rounded to the nearest integer.
LnTable ==
    <<
       0, 693, 1099, 1386, 1609, 1792, 1946, 2079, 2197, 2303, 2398, 2485, 2565, 2639, 2708, 2773,
       2833, 2890, 2944, 2996, 3045, 3091, 3135, 3178, 3219, 3258, 3296, 3332, 3367, 3401, 3434, 3466,
       3497, 3526, 3555, 3584, 3611, 3638, 3664, 3689, 3714, 3738, 3761, 3784, 3807, 3829, 3850, 3871,
       3892, 3912, 3932, 3951, 3970, 3989, 4007, 4025, 4043, 4060, 4078, 4094, 4111, 4127, 4143, 4159,
       4174, 4190, 4205, 4220, 4234, 4248, 4263, 4277, 4290, 4304, 4317, 4331, 4344, 4357, 4369, 4382,
       4394, 4407, 4419, 4431, 4443, 4454, 4466, 4477, 4489, 4500, 4511, 4522, 4533, 4543, 4554, 4564,
       4575, 4585, 4595, 4605, 4615, 4625, 4635, 4644, 4654, 4663, 4673, 4682, 4691, 4700, 4710, 4718,
       4727, 4736, 4745, 4754, 4762, 4771, 4779, 4787, 4796, 4804, 4812, 4820, 4828, 4836, 4844, 4852,
       4860, 4868, 4875, 4883, 4890, 4898, 4905, 4913, 4920, 4927, 4934, 4942, 4949, 4956, 4963, 4970,
       4977, 4984, 4990, 4997, 5004, 5011, 5017, 5024, 5030, 5037, 5043, 5050, 5056, 5063, 5069, 5075,
       5081, 5088, 5094, 5100, 5106, 5112, 5118, 5124, 5130, 5136, 5142, 5147, 5153, 5159, 5165, 5170,
       5176, 5182, 5187, 5193, 5198, 5204, 5209, 5215, 5220, 5226, 5231, 5236, 5242, 5247, 5252, 5257,
       5263, 5268, 5273, 5278, 5283, 5288, 5293, 5298, 5303, 5308, 5313, 5318, 5323, 5328, 5333, 5338,
       5342, 5347, 5352, 5357, 5361, 5366, 5371, 5375, 5380, 5384, 5389, 5394, 5398, 5403, 5407, 5412,
       5416, 5421, 5425, 5429, 5434, 5438, 5442, 5447, 5451, 5455, 5460, 5464, 5468, 5472, 5476, 5481,
       5485, 5489, 5493, 5497, 5501, 5505, 5509, 5513, 5517, 5521, 5525, 5529, 5533, 5537, 5541, 5545
    >>

\* 1000 * ln(2)
LnTwoMilli == 693

\* 1000 * ln(1e-10), the logarithm np.log(f0 + 1e-10) takes at f0 = 0.
LnTinyMilli == -23026

LnTableLen == 256

\* np.log(k) in milli for an integer k >= 1; beyond the table by halving.
RECURSIVE LnMilli(_)
LnMilli(k) ==
    IF k <= LnTableLen THEN LnTable[k] ELSE LnMilli(k \div 2) + LnTwoMilli

\* -sum(p * log(p)) in milli, p the positive entries of cnt over D divided
\* by their sum S:  ln(S) - (sum c ln c) / S.
EntropyMilli(cnt, D) ==
    LET pos    == {d \in D : cnt[d] > 0}
        S      == FnSum(cnt, pos)
        clnc   == [d \in pos |-> cnt[d] * LnMilli(cnt[d])]
    IN  LnMilli(S) - (FnSum(clnc, pos) \div S)

\* np.percentile(a, q) with the default linear interpolation reads
\* sorted(a) at the position q * (len - 1) / 100: at index PctIndex and,
\* PctRem hundredths of the way, towards the next index.
PctIndex(len, q) == (q * (len - 1)) \div 100

PctRem(len, q) == (q * (len - 1)) % 100

\* np.percentile * 100, given lo = sorted(a)[PctIndex], hi = the next entry
\* (or lo again at the end of the array) and rem = PctRem.
PctInterp(lo, hi, rem) == 100 * lo + rem * (hi - lo)

\* sorted(s)[k], k = 0..Len(s)-1, for a sequence of integers.
KthSmallest(s, k) ==
    CHOOSE v \in Range(s) :
        /\ Cardinality({i \in DOMAIN s : s[i] < v}) <= k
        /\ Cardinality({i \in DOMAIN s : s[i] <= v}) > k

\* X = np.array([x[i : i + m*tau : tau] for i in range(n)]), rows 1..n.
Embed(x, m, tau, n) == [i \in 1..n |-> [k \in 1..m |-> x[i + (k - 1) * tau]]]

\* The Chebyshev distance of two rows.
Chebyshev(a, b) == SetMax({Abs(a[k] - b[k]) : k \in DOMAIN a})

(***************************************************************************)
(* The nonlinear measures.  Returned values are in milli: DFA 0.7 is 700.  *)
(***************************************************************************)

DfaMinBox == 4

DfaDefault == 700

DfaLo == 300

DfaHi == 1500

\* scales = np.unique(np.round(np.logspace(log10(min_box), log10(max_box),
\* 10)).astype(int)): the ten log-spaced points from 4 to max_box round onto
\* every integer of 4..max_box as long as max_box <= 11, that is for every
\* signal shorter than 48 samples (the signals drawn here are).
DfaScales(min_box, max_box) == min_box..max_box

\* The scales of _dfa that yield a fluctuation: n_seg = N // n >= 1.
DfaValidScales(signal) ==
    LET N       == Len(signal)
        max_box == IF DfaMinBox + 1 >= N \div 4 THEN DfaMinBox + 1 ELSE N \div 4
    IN  {n \in DfaScales(DfaMinBox, max_box) : N \div n >= 1}

\* Whether every fluctuation F(n) is zero for certain: a constant signal has
\* a zero profile y, so log(F + 1e-12) is the same at every scale and the
\* fitted slope is 0.
DfaFlat(signal) == Cardinality(Range(signal)) <= 1

\* _dfa with the final np.clip left out.
DfaMutNoClip(signal, slope) ==
    IF Cardinality(DfaValidScales(signal)) < 2 THEN DfaDefault
    ELSE IF DfaFlat(signal) THEN 0 ELSE slope

\* _dfa(signal).  slope is the least-squares slope of log F(n) against
\* log n in milli, a real number the model does not compute: the caller
\* draws it (it is read only when the signal is not constant).
Dfa(signal, slope) ==
    IF Cardinality(DfaValidScales(signal)) < 2 THEN DfaDefault
    ELSE LET alpha == IF DfaFlat(signal) THEN 0 ELSE slope
         IN  Clip(alpha, DfaLo, DfaHi)

PpeBins == 30

\* np.log(f0 + 1e-10) in milli, f0 a non-negative integer.
LogF0(v) == IF v = 0 THEN LnTinyMilli ELSE LnMilli(v)

\* _ppe(f0_voiced)
Ppe(f0_voiced) ==
    IF Len(f0_voiced) < 4 THEN 0
    ELSE
      LET lf == [i \in DOMAIN f0_voiced |-> LogF0(f0_voiced[i])]
          lo == SeqMin(lf)
          hi == SeqMax(lf)
      IN  IF hi = lo THEN 0
          ELSE
            \* np.histogram(lf_norm, bins=30, range=(0, 1)): the last bin is closed
            LET bin == [i \in DOMAIN lf |->
                          LET b == (PpeBins * (lf[i] - lo)) \div (hi - lo)
                          IN  IF b >= PpeBins THEN PpeBins - 1 ELSE b]
                counts == [b \in 0..(PpeBins - 1) |->
                              Cardinality({i \in DOMAIN lf : bin[i] = b})]
                H == EntropyMilli(counts, 0..(PpeBins - 1))
            IN  Clip((1000 * H) \div LnMilli(PpeBins), 0, 1000)

RpdeM == 4

RpdeTau == 1

RpdeMaxPts == 2000

\* n < 10 read as n < 11.
RpdeMinRowsMutEleven == 10 + 1

RpdeMinRows == 10

RpdeMaxRows == 200

RpdeDefault == 500

\* The recurrence periods of _rpde as triples <<i, a, b>>: rows a < b are
\* consecutive entries of rec[i], the rows after row i within epsilon of
\* it, and b - a is one entry of `periods`.
RpdePeriods(rec) ==
    UNION {{<<i, pr[1], pr[2]>> :
               pr \in {q \in rec[i] \X rec[i] :
                         /\ q[1] < q[2]
                         /\ \A c \in rec[i] : ~(q[1] < c /\ c < q[2])}} :
           i \in DOMAIN rec}

\* X.std() is computed in floating point: on a constant non-zero signal
\* the mean may be rounded and the std then comes out a last place above
\* zero instead of exactly 0.0.
StdUlps == {0, 1}

\* _rpde(signal), X.std() being off by stdErr when it is exactly zero.
Rpde(signal, stdErr) ==
    LET x == Take(signal, RpdeMaxPts)
        N == Len(x)
        n == N - (RpdeM - 1) * RpdeTau
    IN  IF n < RpdeMinRows THEN RpdeDefault
        ELSE
          LET X    == Embed(x, RpdeM, RpdeTau, n)
              \* epsilon = 0.2 * X.std(): with M elements of sum s1 and sum of
              \* squares s2, std^2 = (M*s2 - s1^2) / M^2
              M    == n * RpdeM
              s1   == SeqSum([i \in 1..n |-> SeqSum(X[i])])
              s2   == SeqSum([i \in 1..n |-> SeqSum([k \in 1..RpdeM |-> X[i][k] * X[i][k]])])
              varM == M * s2 - s1 * s1
              \* the sum of zeros is exact
              tiny == varM = 0 /\ stdErr > 0 /\ s2 > 0
          IN  IF varM = 0 /\ ~tiny THEN RpdeDefault
              ELSE
                LET dist == [i \in 1..n |-> [j \in 1..n |-> Chebyshev(X[i], X[j])]]
                    \* d < 0.2 * std   <=>   25 * d^2 * M^2 < M*s2 - s1^2
                    close(i, j) == IF tiny THEN dist[i][j] = 0
                                   ELSE 25 * dist[i][j] * dist[i][j] * M * M < varM
                    last == IF n < RpdeMaxRows THEN n ELSE RpdeMaxRows
                    rec  == [i \in 1..last |-> {j \in (i + 1)..n : close(i, j)}]
                    periods == RpdePeriods(rec)
                IN  IF periods = {} THEN RpdeDefault
                    ELSE
                      LET T_max == SetMax({t[3] - t[2] : t \in periods})
                      IN  IF T_max < 1 THEN RpdeDefault
                          ELSE
                            LET cnt == [v \in 1..T_max |->
                                          Cardinality({t \in periods : t[3] - t[2] = v})]
                                H   == EntropyMilli(cnt, 1..T_max)
                            IN  Clip((1000 * H) \div LnMilli(T_max + 1), 0, 1000)

D2M == 4

D2Tau == 1

D2MaxPts == 1500

D2MinRows == 20

D2MaxSamp == 300

D2MinDists == 10

D2NRadii == 15

D2Default == 2000

D2Lo == 500

D2Hi == 10000

\* The index sets np.random.choice(n, n_samp, replace=False) can return
\* (rows 1..n): all the rows while n <= 300, else any 300 of them.
D2Samples(n) ==
    IF n <= D2MaxSamp THEN {1..n}
    ELSE {S \in SUBSET (1..n) : Cardinality(S) = D2MaxSamp}

\* The guards of _d2 up to the fit: "default" when one of them returns 2.0,
\* "fit" when the slope is fitted.  idx is the sampled index set.
D2Guard(signal, idx) ==
    LET x == Take(signal, D2MaxPts)
        N == Len(x)
        n == N - (D2M - 1) * D2Tau
    IN  IF n < D2MinRows THEN "default"
        ELSE
          LET X     == Embed(x, D2M, D2Tau, n)
              pairs == {pr \in idx \X idx : pr[1] < pr[2]}
              dOf   == [pr \in pairs |-> Chebyshev(X[pr[1]], X[pr[2]])]
              \* dists = dists[dists > 0]
              pos   == {pr \in pairs : dOf[pr] > 0}
              L     == Cardinality(pos)
          IN  IF L < D2MinDists THEN "default"
              ELSE
                LET kth(k) == CHOOSE v \in {dOf[pr] : pr \in pos} :
                                /\ Cardinality({pr \in pos : dOf[pr] < v}) <= k
                                /\ Cardinality({pr \in pos : dOf[pr] <= v}) > k
                    pct(q) == LET k == PctIndex(L, q)
                              IN  PctInterp(kth(k), kth(IF k + 1 < L THEN k + 1 ELSE k),
                                            PctRem(L, q))
                    r1 == pct(5)
                    r2 == pct(50)
                IN  IF r2 <= r1 THEN "default"
                    ELSE
                      \* r_vals runs from r1 to r2 > r1 in 15 log-spaced steps; C(r) > 0
                      \* exactly when r exceeds the least distance, which every radius
                      \* after the first does (r > r1 >= min) and the first does when
                      \* r1 > min.
                      LET valid == IF r1 > 100 * kth(0) THEN D2NRadii ELSE D2NRadii - 1
                      IN  IF valid < 2 THEN "default" ELSE "fit"

\* _d2(signal).  idx is the random sample of rows; slope is the fitted
\* slope of log C(r) against log r in milli, a real number the model does
\* not compute: the caller draws it.
D2(signal, idx, slope) ==
    IF D2Guard(signal, idx) = "default" THEN D2Default
    ELSE Clip(slope, D2Lo, D2Hi)

SpreadMinLen == 4

\* lf.mean() is a floating-point sum divided by N: it is the exact mean up
\* to a rounding error of the last place, which one model unit stands for.
MeanUlps == {-1, 0, 1}

\* _spreads(f0_voiced) as <<spread1, spread2>> in units of 1e-5 (milli
\* logarithms times 100): spread1 = lf.min() - lf.mean(), the mean being
\* off by err, spread2 = np.percentile(lf, 75) - np.percentile(lf, 25).
Spreads(f0_voiced, err) ==
    IF Len(f0_voiced) < SpreadMinLen THEN <<0, 0>>
    ELSE
      LET lf  == [i \in DOMAIN f0_voiced |-> LogF0(f0_voiced[i])]
          N   == Len(lf)
          pct(q) == LET k == PctIndex(N, q)
                    IN  PctInterp(KthSmallest(lf, k),
                                  KthSmallest(lf, IF k + 1 < N THEN k + 1 ELSE k),
                                  PctRem(N, q))
      IN  <<(100 * (N * SeqMin(lf) - SeqSum(lf))) \div N - err, pct(75) - pct(25)>>

(***************************************************************************)
(* The risk scorer.  Feature values of the summary are in units of 1e-6.   *)
(***************************************************************************)

SummaryKeys == {"MDVP:Jitter(%)", "MDVP:Shimmer", "HNR", "NHR"}

\* _FEATURE_REFS: the reference maximum of each summarised feature (1e-6).
FeatureRefMax(key) ==
    CASE key = "MDVP:Jitter(%)" -> 30000
      [] key = "MDVP:Shimmer"   -> 150000
      [] key = "HNR"            -> 30000000
      [] key = "NHR"            -> 300000

FeatureRefLabel(key) ==
    CASE key = "MDVP:Jitter(%)" -> "Jitter (pitch irregularity)"
      [] key = "MDVP:Shimmer"   -> "Shimmer (amplitude instability)"
      [] key = "HNR"            -> "HNR (harmonics-to-noise ratio)"
      [] key = "NHR"            -> "NHR (noise-to-harmonics ratio)"

\* _risk_bucket with the first cut point made inclusive (a boundary slip).
RiskBucketMutInclusive(score) ==
    IF score <= 30 THEN "LOW"
    ELSE IF score < 60 THEN "MODERATE"
    ELSE "HIGH"

\* _risk_bucket(score)
RiskBucket(score) ==
    IF score < 30 THEN "LOW"
    ELSE IF score < 60 THEN "MODERATE"
    ELSE "HIGH"

\* norm = min(1.0, val / max) if max else 0.0, as the rational <<n, d>>, d > 0.
NormOf(val, max) ==
    IF max = 0 THEN <<0, 1>>
    ELSE IF val >= max THEN <<1, 1>>
    ELSE <<val, max>>

\* The status chain with the second threshold compared inclusively.
StatusOfMutInclusive(norm) ==
    IF 2 * norm[1] < norm[2] THEN "normal"
    ELSE IF 20 * norm[1] <= 17 * norm[2] THEN "elevated"
    ELSE "high"

\* The status chain of _build_feature_summary: norm < 0.5, norm < 0.85,
\* else; 0.85 is 17/20 and the comparisons are cross-multiplied.
StatusOf(norm) ==
    IF 2 * norm[1] < norm[2] THEN "normal"
    ELSE IF 20 * norm[1] < 17 * norm[2] THEN "elevated"
    ELSE "high"

\* features.get(key, 0.0)
FeatureGet(features, key) ==
    IF key \in DOMAIN features THEN features[key] ELSE 0

\* _build_feature_summary(features)
BuildFeatureSummary(features) ==
    [key \in SummaryKeys |->
        LET val  == FeatureGet(features, key)
            norm == NormOf(val, FeatureRefMax(key))
        IN  [label  |-> FeatureRefLabel(key),
             value  |-> Round5(val),
             status |-> StatusOf(norm)]]

\* int(prob * 100) in place of round(prob * 100).
RiskScoreMutTruncate(prob) == (100 * prob[1]) \div prob[2]

\* risk_score = round(prob * 100), prob = <<num, den>>.
RiskScore(prob) == PyRound(100 * prob[1], prob[2])

\* prediction = 1 if prob >= 0.5 else 0  (predict_from_dict)
PredictionOf(prob) == IF 2 * prob[1] >= prob[2] THEN 1 ELSE 0

(***************************************************************************)
(* Inputs of the scorer.                                                   *)
(***************************************************************************)

\* The probabilities drawn are the whole-percent grid k/100 and the dyadic
\* grid k/DyadicDen.  On both the double product prob * 100 that Python
\* rounds has the same rounding as the exact product: k/100 * 100 is within
\* an ulp of the integer k, and k/DyadicDen * 100 is exact (the classifier's
\* float32 output is itself dyadic), so the exact halves 12.5, 37.5, 62.5
\* and 87.5 are drawn.
DyadicDen == 16

PercentDen == 100

ProbInputs ==
    {<<k, PercentDen>> : k \in 0..PercentDen} \cup {<<k, DyadicDen>> : k \in 0..DyadicDen}

\* The values drawn for a summarised feature: negative, zero, each side of
\* both thresholds, the maximum and above it.
SummaryValues(key) ==
    LET m == FeatureRefMax(key)
    IN  {-5, 0, (m \div 2) - 1, m \div 2, ((17 * m) \div 20) - 1,
         (17 * m) \div 20, m, 2 * m}

\* The features_16 dicts drawn, restricted to the keys the summary reads.
FeatureInputs ==
    {[key \in SummaryKeys |->
        CASE key = "MDVP:Jitter(%)" -> j
          [] key = "MDVP:Shimmer"   -> s
          [] key = "HNR"            -> h
          [] key = "NHR"            -> n] :
        j \in SummaryValues("MDVP:Jitter(%)"), s \in SummaryValues("MDVP:Shimmer"),
        h \in SummaryValues("HNR"), n \in SummaryValues("NHR")}

(***************************************************************************)
(* The signals drawn for the nonlinear measures.                           *)
(***************************************************************************)

MaxSigLen == 24

GlitchPos == 10

SampleValues == {0, 1, 2}

\* The periods the drawn signals repeat: constant, alternating, ramps and
\* irregular ones.
Patterns ==
    {<<0>>, <<1>>, <<2>>, <<0, 1>>, <<0, 2>>, <<1, 2>>, <<0, 0, 1>>, <<0, 1, 2>>,
     <<2, 1, 0>>, <<0, 2, 2>>, <<0, 1, 0, 2>>, <<0, 1, 1, 2>>, <<2, 0, 1, 1>>,
     <<0, 0, 0, 1>>, <<1, 2, 2, 0, 1>>, <<0, 0, 1, 2, 1>>}

\* The pattern pat repeated up to length len; with glitch, the sample at
\* GlitchPos is replaced by the next sample value.
SignalOf(pat, len, glitch) ==
    [i \in 1..len |->
        LET v == pat[((i - 1) % Len(pat)) + 1]
        IN  IF glitch /\ i = GlitchPos THEN (v + 1) % Cardinality(SampleValues) ELSE v]

NlSignals ==
    {SignalOf(pat, len, g) : pat \in Patterns, len \in 0..MaxSigLen, g \in BOOLEAN}

(***************************************************************************)
(* The feature extractors: extract_uci16 (server/src/services/             *)
(* parsel_parser.py) and extract_all_features (ml/test_pd_speech.py).      *)
(*                                                                         *)
(* A Value is what a Praat query or a Python expression evaluates to: a    *)
(* finite number [k |-> "num", v |-> n], or NaN, +Infinity, -Infinity or a *)
(* non-numeric object (None) with k naming which.                          *)
(***************************************************************************)

Num(n) == [k |-> "num", v |-> n]

NonFinite == {"nan", "inf", "-inf", "none"}

Special(kind) == [k |-> kind, v |-> 0]

NaN == Special("nan")

\* parsel_parser._safe_float letting the infinities through (isnan only).
SafeFloatUMutNanOnly(x, default) ==
    IF x.k \in {"num", "inf", "-inf"} THEN x ELSE default

\* parsel_parser._safe_float(x, default): None, NaN, the infinities and
\* whatever float() rejects become the default.
SafeFloatU(x, default) ==
    IF x.k = "none" THEN default
    ELSE IF x.k \in {"nan", "inf", "-inf"} THEN default
    ELSE x

\* test_pd_speech._safe_float without the v != v test: NaN passes.
SafeFloatAMutPassNaN(x, default) ==
    IF x.k = "none" THEN default
    ELSE IF x.k \in {"inf", "-inf"} THEN default
    ELSE x

\* test_pd_speech._safe_float(x, default): float(None) raises and is caught;
\* v != v, +inf and -inf become the default.
SafeFloatA(x, default) ==
    IF x.k = "none" THEN default
    ELSE IF x.k \in {"nan", "inf", "-inf"} THEN default
    ELSE x

\* The 22 feature names in the order the classifier was trained on:
\* feature_names.joblib, the columns of the training table as data_prep.py
\* saved them.  extract_all_features declares its keys in the same order.
FeatureNames ==
    <<"MDVP:Fo(Hz)", "MDVP:Fhi(Hz)", "MDVP:Flo(Hz)",
      "MDVP:Jitter(%)", "MDVP:Jitter(Abs)", "MDVP:RAP", "MDVP:PPQ", "Jitter:DDP",
      "MDVP:Shimmer", "MDVP:Shimmer(dB)", "Shimmer:APQ3", "Shimmer:APQ5",
      "MDVP:APQ", "Shimmer:DDA",
      "NHR", "HNR",
      "RPDE", "DFA", "spread1", "spread2", "D2", "PPE">>

PitchKeys == <<"MDVP:Fo(Hz)", "MDVP:Fhi(Hz)", "MDVP:Flo(Hz)">>

\* The jitter and shimmer measures in the order their try blocks query them.
JitterKeys ==
    <<"MDVP:Jitter(%)", "MDVP:Jitter(Abs)", "MDVP:RAP", "MDVP:PPQ", "Jitter:DDP">>

ShimmerKeys ==
    <<"MDVP:Shimmer", "MDVP:Shimmer(dB)", "Shimmer:APQ3", "Shimmer:APQ5",
      "MDVP:APQ", "Shimmer:DDA">>

PerturbKeys == Range(JitterKeys) \cup Range(ShimmerKeys)

NonlinearKeys == {"RPDE", "DFA", "spread1", "spread2", "D2", "PPE"}

\* The keys of the dict extract_uci16 returns, in the order of its literal.
Uci16Keys ==
    PitchKeys \o JitterKeys \o ShimmerKeys \o <<"NHR", "HNR">>

\* The keys of the dict extract_all_features returns, in the order of its literal.
All22Keys ==
    PitchKeys \o JitterKeys \o ShimmerKeys
      \o <<"NHR", "HNR", "RPDE", "DFA", "spread1", "spread2", "D2", "PPE">>

\* The position of a key in FeatureNames.
FeatureIndex(key) == CHOOSE i \in DOMAIN FeatureNames : FeatureNames[i] = key

\* What the Praat query of a perturbation measure returns when it succeeds
\* with a finite number: a number of its own for every measure, so that a
\* value in the wrong place shows.
RawVal(key) == 10 * FeatureIndex(key) + 7

\* jitter_local = jitter_abs = ... = 0.0 replaced by NaN, the way fo, fhi
\* and flo start out in extract_all_features.
PerturbInitMutNaN == [key \in PerturbKeys |-> NaN]

\* jitter_local = jitter_abs = rap = ppq = ddp = 0.0 and
\* shimmer_local = ... = dda = 0.0
PerturbInit == [key \in PerturbKeys |-> Num(0)]

\* The mean harmonicities drawn, in hundredths of a dB: negative, zero,
\* 0.05, 0.09, 0.10 and 20 dB.
HnrValues == {-500, 0, 5, 9, 10, 2000}

\* 1.0 / (10 ** (hnr / 10.0)) in units of 1e-5, hnr in hundredths of a dB,
\* tabulated at the positive harmonicities drawn.
InvPow10(hnr) ==
    CASE hnr = 5    -> 98855
      [] hnr = 9    -> 97949
      [] hnr = 10   -> 97724
      [] hnr = 2000 -> 1000

\* extract_uci16: nhr = 1/10^(hnr_val/10) if hnr_val > 0 else 0.0
NhrU(hnr) ==
    LET hnr_val == SafeFloatU(hnr, Num(0))
    IN  IF hnr_val.v > 0 THEN Num(InvPow10(hnr_val.v)) ELSE Num(0)

NhrThresholdA == 10

\* extract_all_features: nhr = 1/10^(hnr/10) if hnr >= 0.1 else 0.0
NhrA(hnr) ==
    IF hnr.v >= NhrThresholdA THEN Num(InvPow10(hnr.v)) ELSE Num(0)

(***************************************************************************)
(* Dicts keep insertion order: a dict is a sequence of <<key, value>>.     *)
(***************************************************************************)

DictKeys(d) == [i \in DOMAIN d |-> d[i][1]]

DictHas(d, key) == \E i \in DOMAIN d : d[i][1] = key

DictGet(d, key) == d[CHOOSE i \in DOMAIN d : d[i][1] = key][2]

\* d[key] = val: an existing key keeps its place.
DictSet(d, key, val) ==
    IF DictHas(d, key)
    THEN [i \in DOMAIN d |-> IF d[i][1] = key THEN <<key, val>> ELSE d[i]]
    ELSE Append(d, <<key, val>>)

\* {**a, **b}
RECURSIVE DictMerge(_, _)
DictMerge(a, b) ==
    IF b = <<>> THEN a
    ELSE DictMerge(DictSet(a, Head(b)[1], Head(b)[2]), Tail(b))

\* _DATASET_MEANS: the population mean of each nonlinear feature (RPDE,
\* DFA, D2, PPE in milli, the spreads in 1e-5).
DatasetMean(key) ==
    CASE key = "RPDE"    -> 499
      [] key = "DFA"     -> 718
      [] key = "spread1" -> -568400
      [] key = "spread2" -> 22650
      [] key = "D2"      -> 2382
      [] key = "PPE"     -> 207

\* The orders in which the JSON table of means may list its six keys.
MeansOrders ==
    {<<"RPDE", "DFA", "spread1", "spread2", "D2", "PPE">>,
     <<"PPE", "D2", "spread2", "spread1", "DFA", "RPDE">>,
     <<"spread1", "spread2", "D2", "PPE", "RPDE", "DFA">>}

DatasetMeans(order) == [i \in DOMAIN order |-> <<order[i], Num(DatasetMean(order[i]))>>]

\* The vector built from the dict's own order: list(features.values()).
PredictVectorMutDictOrder(features) ==
    [err |-> FALSE, x |-> [i \in DOMAIN features |-> features[i][2]]]

\* predict_from_dict: x = [float(features[f]) for f in feature_names]; err
\* when a name is missing from the dict (KeyError).
PredictVector(features) ==
    IF \E i \in DOMAIN FeatureNames : ~DictHas(features, FeatureNames[i])
    THEN [err |-> TRUE, x |-> <<>>]
    ELSE [err |-> FALSE,
          x   |-> [i \in DOMAIN FeatureNames |-> DictGet(features, FeatureNames[i])]]

\* predict_pd_probability: [float(features_dict.get(f, 0.0)) for f in feature_names]
PredictVectorGet(features) ==
    [err |-> FALSE,
     x   |-> [i \in DOMAIN FeatureNames |->
                IF DictHas(features, FeatureNames[i])
                THEN DictGet(features, FeatureNames[i]) ELSE Num(0)]]

(***************************************************************************)
(* The clips drawn.  A clip is what the trackers find in a recording:      *)
(* f0praat, the voiced F0 frames of Praat's pitch object (Hz); f0pyin,     *)
(* those of librosa.pyin; raw, the samples librosa.load returns.           *)
(***************************************************************************)

NlMinF0Len == 32

Clips ==
    {\* silence: nothing voiced
     [f0praat |-> <<>>, f0pyin |-> <<>>, raw |-> [i \in 1..8 |-> 0]],
     \* Praat finds nothing, pyin finds five frames
     [f0praat |-> <<>>, f0pyin |-> <<100, 110, 120, 130, 125>>,
      raw |-> SignalOf(<<0, 1, 0, 2>>, 14, TRUE)],
     \* three voiced frames: too few for the spreads and PPE
     [f0praat |-> <<120, 122, 125>>, f0pyin |-> <<>>,
      raw |-> SignalOf(<<0, 1, 1, 2>>, 24, TRUE)],
     \* a sustained vowel: enough voiced frames to carry the nonlinear measures
     [f0praat |-> [i \in 1..NlMinF0Len |->
                     IF i = GlitchPos THEN 131 ELSE <<120, 121, 120, 122>>[((i - 1) % 4) + 1]],
      f0pyin |-> <<>>, raw |-> <<>>]}

\* float(np.mean(f0_voiced)), to the Hz.
SeqMean(s) == SeqSum(s) \div Len(s)

(***************************************************************************)
(* The reading task (backend/task_2/services).  A clip is the sequence of  *)
(* its 50 ms frames, each frame the amplitude of its samples on the int16  *)
(* scale.  pydub counts time in ms, one sample standing for each.          *)
(***************************************************************************)

FrameMs == 50

MinSilenceLenMs == 600

\* min_silence_len in frames
MinSilenceFrames == MinSilenceLenMs \div FrameMs

\* 10 ** (-silence_offset_db / 20) for silence_offset_db = 16, as
\* DbOffsetNum / DbOffsetDen
DbOffsetNum == 158489

DbOffsetDen == 1000000

\* int(sqrt(x)) by bisection: the largest r in lo..hi with r * r <= x.
RECURSIVE IsqrtIn(_, _, _)
IsqrtIn(x, lo, hi) ==
    IF lo >= hi THEN lo
    ELSE LET mid == (lo + hi + 1) \div 2
         IN  IF mid * mid <= x THEN IsqrtIn(x, mid, hi) ELSE IsqrtIn(x, lo, mid - 1)

Isqrt(x) == IsqrtIn(x, 0, 46340)

\* AudioSegment.rms: the integer root mean square of the samples, 0 for no
\* sample.  The mean of the squares is floor(sum / n), summed as quotients
\* and remainders to stay within 32 bits.
AudioRms(frames) ==
    IF Len(frames) = 0 THEN 0
    ELSE LET n == Len(frames)
             sq(i) == frames[i] * frames[i]
         IN  Isqrt(SeqSum([i \in DOMAIN frames |-> sq(i) \div n])
                   + SeqSum([i \in DOMAIN frames |-> sq(i) % n]) \div n)

\* The dynamic threshold audio.dBFS - silence_offset_db as an amplitude:
\* floor(rms_all * DbOffsetNum / DbOffsetDen), which is 0 for a silent clip
\* (dBFS = -infinity) and is the largest integer rms a window may have to
\* count as silent.
SilenceThresh(rms_all) ==
    ((DbOffsetNum \div 1000) * rms_all + ((DbOffsetNum % 1000) * rms_all) \div 1000)
        \div (DbOffsetDen \div 1000)

\* The sum of the squares of the samples from millisecond t on, len_ms long,
\* one sample counted per millisecond.
WindowSquares(frames, t, len_ms) ==
    LET first == t \div FrameMs + 1
        last == (t + len_ms - 1) \div FrameMs + 1
        lo(f) == IF (f - 1) * FrameMs > t THEN (f - 1) * FrameMs ELSE t
        hi(f) == IF f * FrameMs < t + len_ms THEN f * FrameMs ELSE t + len_ms
    IN  SeqSum([k \in 1..(last - first + 1) |->
                  (hi(first + k - 1) - lo(first + k - 1))
                      * frames[first + k - 1] * frames[first + k - 1]])

\* pydub.silence.detect_silence: the slice audio[t : t + len_ms] is silent,
\* its integer rms being at most thresh.
SilentWindow(frames, t, len_ms, thresh) ==
    WindowSquares(frames, t, len_ms) < (thresh + 1) * (thresh + 1) * len_ms

\* pydub.silence.detect_silence, the starts of the silent slices in
\* increasing order (seek_step is 1 ms).
SilenceStarts(frames, min_len) ==
    LET thresh == SilenceThresh(AudioRms(frames))
        last_slice_start == Len(frames) * FrameMs - min_len
    IN  SelectSeq([t \in 1..(last_slice_start + 1) |-> t - 1],
                  LAMBDA t : SilentWindow(frames, t, min_len, thresh))

\* pydub.silence.detect_silence, the silent slices combined into ranges
\* <<start, end>>: a range ends at the last slice that the next silent
\* slice neither follows directly nor overlaps, and the next range starts
\* there.
CombineSilence(starts, min_len) ==
    LET n == Len(starts)
        idx == [k \in 1..n |-> k]
        opens == SelectSeq(idx, LAMBDA k : k = 1 \/ starts[k] > starts[k - 1] + min_len)
        closes == SelectSeq(idx, LAMBDA k : k = n \/ starts[k + 1] > starts[k] + min_len)
    IN  [r \in DOMAIN opens |-> <<starts[opens[r]], starts[closes[r]] + min_len>>]

\* silence.detect_silence(audio, min_silence_len, silence_thresh): the
\* silent ranges in ms; none for a clip shorter than min_silence_len.
DetectSilence(frames, min_len) ==
    IF Len(frames) * FrameMs < min_len THEN <<>>
    ELSE CombineSilence(SilenceStarts(frames, min_len), min_len)

\* The ratio rounded to three places only.
PauseRoundMutThree(num, den) == 10 * PyRound(1000 * num, den)

\* round(pause_ratio, 4) of num / den, in units of 1e-4
PauseRound(num, den) == PyRound(10000 * num, den)

\* compute_pause_ratio(audio_path) with its default settings: the result's
\* pause_ratio in units of 1e-4 (round(., 4)), the durations in ms.
PauseRatio(frames) ==
    LET total_ms == Len(frames) * FrameMs
    IN  IF total_ms <= 0
        THEN [total_ms |-> 0, silence_ms |-> 0, pause_ratio |-> 0, pause_count |-> 0,
              silent_ranges |-> <<>>]
        ELSE
          LET silent_ranges == DetectSilence(frames, MinSilenceLenMs)
              span(r) == LET d == silent_ranges[r][2] - silent_ranges[r][1]
                         IN  IF d > 0 THEN d ELSE 0
              silence_ms == SeqSum([r \in DOMAIN silent_ranges |-> span(r)])
              \* min(1.0, max(0.0, silence_seconds / total_seconds)) as num / total_ms
              num == IF silence_ms < 0 THEN 0
                     ELSE IF silence_ms > total_ms THEN total_ms ELSE silence_ms
          IN  [total_ms      |-> total_ms,
               silence_ms    |-> silence_ms,
               pause_ratio   |-> PauseRound(num, total_ms),
               pause_count   |-> Len(silent_ranges),
               silent_ranges |-> silent_ranges]

(***************************************************************************)
(* Loudness.  Every sample of a frame has the frame's amplitude, so the    *)
(* frame's rms is that amplitude; statistics are exact rationals on the    *)
(* int16 scale (rms * 32768).                                              *)
(***************************************************************************)

SilenceRmsThreshold == 200

\* abs(sample) > 0.98 on the int16 scale: floor(0.98 * 32768)
ClipLevel == 32112

\* Products of numbers below 4 * 10^8 as four limbs in base 10^4, most
\* significant first, for comparisons that exceed 32 bits.
Limb == 100 * 100

Mul(a, b) ==
    LET a1 == a \div Limb
        a0 == a % Limb
        b1 == b \div Limb
        b0 == b % Limb
        p0 == a0 * b0
        p1 == a1 * b0 + a0 * b1 + p0 \div Limb
        p2 == a1 * b1 + p1 \div Limb
    IN  <<p2 \div Limb, p2 % Limb, p1 % Limb, p0 % Limb>>

RECURSIVE LimbLeq(_, _)
LimbLeq(p, q) ==
    IF p = <<>> THEN TRUE
    ELSE IF Head(p) # Head(q) THEN Head(p) < Head(q)
    ELSE LimbLeq(Tail(p), Tail(q))

\* sum over i < j of (a[i] - a[j])^2 = n * sum(a^2) - sum(a)^2
SumSqDiff(a) ==
    LET n == Len(a)
        row(i) == SeqSum([j \in 1..n |-> IF j > i THEN (a[i] - a[j]) * (a[i] - a[j]) ELSE 0])
    IN  SeqSum([i \in 1..n |-> row(i)])

\* The rounding left in np.std of equal float32 values, in ulps.
StdResidue == {0, 1}

\* extract_loudness_variance keeping the frames at the silence threshold or
\* below as well.
LoudnessKeepMutAll(a) == a >= 0

\* The frame is kept: not (rms * 32768.0 < silence_rms_threshold).
LoudnessKeep(a) == a >= SilenceRmsThreshold

\* extract_loudness_variance(audio_path): rms_mean = sum / n and
\* rms_var = dev / n^2 (rms_std its root) over the frames kept, as
\* <<numerator, denominator>>; residue is the rounding of rms_std when the
\* kept frames are equal.
LoudnessVariance(frames, residue) ==
    LET frames_total == Len(frames)
        rms_list == SelectSeq(frames, LoudnessKeep)
        clipped_frames == Len(SelectSeq(rms_list, LAMBDA a : a > ClipLevel))
        frames_used == Len(rms_list)
    IN  IF frames_used = 0
        THEN [rms_mean |-> <<0, 1>>, rms_var |-> <<0, 1>>, std_residue |-> 0,
              frames_total |-> frames_total, frames_used |-> 0,
              clipped_ratio |-> <<0, 1>>]
        ELSE [rms_mean |-> <<SeqSum(rms_list), frames_used>>,
              rms_var |-> <<SumSqDiff(rms_list), frames_used * frames_used>>,
              std_residue |-> IF SumSqDiff(rms_list) = 0 /\ frames_used > 2 THEN residue ELSE 0,
              frames_total |-> frames_total, frames_used |-> frames_used,
              clipped_ratio |-> <<clipped_frames, frames_used>>]

\* round(1000 * sqrt(dev) / sum): the m in lo..hi nearest to it, found as
\* the largest m with ((2m - 1) * sum)^2 <= 4000000 * dev.
RECURSIVE CvMilliIn(_, _, _, _)
CvMilliIn(dev, sum, lo, hi) ==
    IF lo >= hi THEN lo
    ELSE LET mid == (lo + hi + 1) \div 2
             x == (2 * mid - 1) * sum
         IN  IF LimbLeq(Mul(x, x), Mul(4000000, dev))
             THEN CvMilliIn(dev, sum, mid, hi)
             ELSE CvMilliIn(dev, sum, lo, mid - 1)

\* analyze_audio_file's loudness_cv without the rounding to three places:
\* any non-zero ratio is reported as at least 0.001.
LoudnessCvMutCeil(loud_res) ==
    IF loud_res.rms_mean[1] # 0 /\ loud_res.rms_var[1] # 0
    THEN LET m == CvMilliIn(loud_res.rms_var[1], loud_res.rms_mean[1], 0, 1000)
         IN  IF m = 0 THEN 1 ELSE m
    ELSE 0

\* analyze_audio_file: loudness_cv = rms_std / rms_mean if rms_mean is
\* non-zero, else 0.0, as reported: round(loudness_cv, 3) in units of 0.001.
\* A rounding residue of rms_std is far below half a unit.
LoudnessCv(loud_res) ==
    IF loud_res.rms_mean[1] # 0
    THEN CvMilliIn(loud_res.rms_var[1], loud_res.rms_mean[1], 0, 1000)
    ELSE 0

(***************************************************************************)
(* Speech rate.  A text is the sequence of its characters, each a string;  *)
(* a character outside ASCII is written by its code point ("U+4F60").      *)
(***************************************************************************)

Letters ==
    {"a", "b", "c", "d", "e", "f", "g", "h", "i", "j", "k", "l", "m", "n", "o", "p", "q", "r",
     "s", "t", "u", "v", "w", "x", "y", "z", "E", "N", "U", "S", "H", "I", "U+4F60", "U+597D"}

Digits == {"0", "1", "2", "3", "4", "5", "6", "7", "8", "9"}

\* White space
Whitespace == {" ", "\n", "\t"}

\* A word character under re.UNICODE: letters, digits and the underscore
IsWordChar(ch) == ch \in Letters \cup Digits \cup {"_"}

\* A word character or an apostrophe
IsTokenChar(ch) == IsWordChar(ch) \/ ch = "'"

\* str.strip()
RECURSIVE LStrip(_)
LStrip(t) == IF t # <<>> /\ Head(t) \in Whitespace THEN LStrip(Tail(t)) ELSE t

RECURSIVE RStrip(_)
RStrip(t) ==
    IF t # <<>> /\ t[Len(t)] \in Whitespace THEN RStrip(SubSeq(t, 1, Len(t) - 1)) ELSE t

Strip(t) == RStrip(LStrip(t))

\* Three grave accents, each written "GRAVE".
Fence == <<"GRAVE", "GRAVE", "GRAVE">>

\* The re.sub of the code fences: an opening fence through the first
\* newline, and a closing fence after a newline at the end, are removed.
RemoveFences(t) ==
    LET opens == Len(t) >= 3 /\ SubSeq(t, 1, 3) = Fence
                 /\ \E i \in 4..Len(t) : t[i] = "\n"
        first_nl == CHOOSE i \in 4..Len(t) : t[i] = "\n" /\ \A j \in 4..(i - 1) : t[j] # "\n"
        body == IF opens THEN SubSeq(t, first_nl + 1, Len(t)) ELSE t
        closes == Len(body) >= 4 /\ SubSeq(body, Len(body) - 3, Len(body)) = <<"\n">> \o Fence
    IN  IF closes THEN SubSeq(body, 1, Len(body) - 4) ELSE body

\* The re.sub of white space: every run becomes one blank.
RECURSIVE CollapseWhitespace(_)
CollapseWhitespace(t) ==
    IF t = <<>> THEN <<>>
    ELSE IF Head(t) \in Whitespace
         THEN <<" ">> \o CollapseWhitespace(LStrip(t))
         ELSE <<Head(t)>> \o CollapseWhitespace(Tail(t))

\* _clean_transcript(text)
CleanTranscript(text) == Strip(CollapseWhitespace(Strip(RemoveFences(Strip(text)))))

\* A word boundary before position i (1-based; Len + 1 is the end of the text)
WordBoundary(t, i) ==
    LET w(k) == k >= 1 /\ k <= Len(t) /\ IsWordChar(t[k])
    IN  w(i - 1) # w(i)

\* re.findall of the word pattern from position i on: a match starts
\* at a boundary on a token character and ends at the last boundary inside
\* the run of token characters; the search resumes after the match.
RECURSIVE CountWordsFrom(_, _)
CountWordsFrom(t, i) ==
    IF i > Len(t) THEN 0
    ELSE IF WordBoundary(t, i) /\ IsTokenChar(t[i])
         THEN LET ends == {j \in (i + 1)..(Len(t) + 1) :
                              /\ \A k \in i..(j - 1) : IsTokenChar(t[k])
                              /\ WordBoundary(t, j)}
              IN  IF ends = {} THEN CountWordsFrom(t, i + 1)
                  ELSE 1 + CountWordsFrom(t, SetMax(ends))
         ELSE CountWordsFrom(t, i + 1)

\* _count_words(transcript)
CountWords(transcript) == CountWordsFrom(transcript, 1)

\* _count_chars_language_neutral counting every character that is not
\* white space.
CountCharsMutNonBlank(transcript) ==
    Len(SelectSeq(transcript, LAMBDA ch : ch \notin Whitespace))

\* _count_chars_language_neutral(transcript): the characters of category
\* L* or N*
CountChars(transcript) ==
    Len(SelectSeq(transcript, LAMBDA ch : ch \in Letters \cup Digits))

\* str.lower() on the letters in use
Lower(t) ==
    [i \in DOMAIN t |->
        CASE t[i] = "E" -> "e" [] t[i] = "N" -> "n" [] t[i] = "U" -> "u"
          [] t[i] = "S" -> "s" [] t[i] = "H" -> "h" [] t[i] = "I" -> "i"
          [] OTHER -> t[i]]

\* str.split("-")[0]
RECURSIVE BeforeDash(_)
BeforeDash(t) ==
    IF t = <<>> \/ Head(t) = "-" THEN <<>> ELSE <<Head(t)>> \o BeforeDash(Tail(t))

Unknown == <<"u", "n", "k", "n", "o", "w", "n">>

\* language_code_out: (language_code or "").strip() or "unknown"; a missing
\* language code (None) is the empty text here.
LanguageCodeOut(language_code) ==
    IF Strip(language_code) = <<>> THEN Unknown ELSE Strip(language_code)

WpmLanguages == {<<"e", "n">>, <<"h", "i">>, <<"t", "e">>}

\* use_wpm comparing the primary subtag as written, without lower().
UseWpmMutCaseSensitive(language_code) ==
    LET out == LanguageCodeOut(language_code)
    IN  (IF out # Unknown THEN BeforeDash(out) ELSE <<>>) \in WpmLanguages

\* use_wpm = lang_primary in {"en", "hi", "te"}
UseWpm(language_code) ==
    LET out == LanguageCodeOut(language_code)
        lang_primary == IF out # Unknown THEN Lower(BeforeDash(out)) ELSE <<>>
    IN  lang_primary \in WpmLanguages

\* The result of compute_speech_rate_with_elevenlabs for a clip of
\* total_ms and the text of the response: duration_seconds in units of
\* 0.001 (round(., 3)), reading_speed_cps in units of 0.001 (round(., 3)),
\* speech_rate_wpm in units of 0.01 (round(., 2)) or None.
SpeechRateResult(total_ms, text, language_code) ==
    LET transcript == CleanTranscript(text)
        char_count == CountChars(transcript)
        use_wpm == UseWpm(language_code)
        word_count == IF use_wpm THEN CountWords(transcript) ELSE 0
    IN  [duration_seconds  |-> total_ms,
         transcript        |-> transcript,
         word_count        |-> word_count,
         language_code     |-> LanguageCodeOut(language_code),
         \* (char_count / duration_seconds) if duration_seconds > 0 else 0.0
         reading_speed_cps |-> IF total_ms > 0 THEN PyRound(1000000 * char_count, total_ms)
                               ELSE 0,
         \* (word_count / minutes) if minutes > 0 else 0.0, or None
         speech_rate_wpm   |-> IF ~use_wpm THEN Special("none")
                               ELSE IF total_ms > 0
                                    THEN Num(PyRound(6000000 * word_count, total_ms))
                                    ELSE Num(0)]

(***************************************************************************)
(* State.  Each part of the engine has its own variables; a specification  *)
(* runs one part and leaves the others parked.                             *)
(***************************************************************************)

VARIABLES
    sc_pc,        \* "predict" -> "score" -> "done": position in the scoring stage
    sc_features,  \* features_16 as far as the summary reads it
    sc_prob,      \* prediction["probability_pd"], or <<0, 1>> before predict
    sc_result,    \* the returned dict, or [set |-> FALSE]
    nl_pc,        \* the next nonlinear measure to compute, then "done"
    nl_sig,       \* the input signal
    nl_out,       \* the measures returned so far: a function name -> value
    ex_fn,        \* the extractor running: "uci16" or "all22"
    ex_pc,        \* the statement the extractor is at
    ex_k,         \* the next query inside the jitter or shimmer try block
    ex_clip,      \* the recording
    ex_faults,    \* how many calls raised or returned a non-finite value so far
    ex_loc,       \* the extractor's local variables
    ex_calls,     \* how each call ended: "notrun", "ok", "raise" or a non-finite kind
    ex_status,    \* "running", "returned" or "raised"
    ex_raisedAt,  \* the call whose exception left the extractor, or "none"
    ex_result,    \* the returned features dict
    ex_x,         \* the vector handed to the classifier
    rd_fn,        \* the reading-task function called
    rd_pc,        \* the statement it is at, then "done" or "raised"
    rd_clip,      \* the recording: the amplitudes of its 50 ms frames
    rd_lang,      \* the language_code argument (<<>> for None)
    rd_pause,     \* the PauseRatioResult, or NoPause
    rd_loud,      \* the LoudnessVarianceResult, or NoLoud
    rd_cv,        \* loudness_cv as reported (units of 0.001)
    rd_rate,      \* the SpeechRateResult, or NoRate
    rd_requests,  \* the requests sent to the transcription service
    rd_error,     \* the exception that left the function, or "none"
    rd_result,    \* the dict analyze_audio_file returns, or NoReading
    sv_secret,    \* the environment's INFERENCE_SHARED_SECRET ("" when unset)
    session_tasks,\* the session's rows of table session_tasks, by task_type
    test_sessions,\* the session's row of table test_sessions
    sv_files,     \* the temporary files that exist, named by the request that made them
    sv_req,       \* the requests being served, one per worker slot
    sv_count      \* how many requests have arrived

sc_vars == <<sc_pc, sc_features, sc_prob, sc_result>>

nl_vars == <<nl_pc, nl_sig, nl_out>>

ex_vars == <<ex_fn, ex_pc, ex_k, ex_clip, ex_faults, ex_loc, ex_calls,
             ex_status, ex_raisedAt, ex_result, ex_x>>

rd_vars == <<rd_fn, rd_pc, rd_clip, rd_lang, rd_pause, rd_loud, rd_cv, rd_rate,
             rd_requests, rd_error, rd_result>>

sv_vars == <<sv_secret, session_tasks, test_sessions, sv_files, sv_req, sv_count>>

vars == <<sc_vars, nl_vars, ex_vars, rd_vars, sv_vars>>

\* The variables a part leaves alone.
sc_others == <<nl_vars, ex_vars, rd_vars, sv_vars>>

nl_others == <<sc_vars, ex_vars, rd_vars, sv_vars>>

ex_others == <<sc_vars, nl_vars, rd_vars, sv_vars>>

rd_others == <<sc_vars, nl_vars, ex_vars, sv_vars>>

sv_others == <<sc_vars, nl_vars, ex_vars, rd_vars>>

NoResult == [set |-> FALSE]

ScoreInit ==
    /\ sc_pc = "predict"
    /\ sc_features \in FeatureInputs
    /\ sc_prob = <<0, 1>>
    /\ sc_result = NoResult

\* prediction = predict_from_dict(features_22); prob = prediction["probability_pd"]
ScorePredict ==
    /\ sc_pc = "predict"
    /\ \E p \in ProbInputs : sc_prob' = p
    /\ sc_pc' = "score"
    /\ UNCHANGED <<sc_features, sc_result, sc_others>>

\* risk_score, bucket and the returned dict of run_vowel_pipeline.
ScoreReturn ==
    /\ sc_pc = "score"
    /\ LET risk_score == RiskScore(sc_prob)
           bucket     == RiskBucket(risk_score)
       IN  sc_result' = [set             |-> TRUE,
                         probability_pd  |-> sc_prob,
                         prediction      |-> PredictionOf(sc_prob),
                         risk_score      |-> risk_score,
                         risk_bucket     |-> bucket,
                         feature_summary |-> BuildFeatureSummary(sc_features)]
    /\ sc_pc' = "done"
    /\ UNCHANGED <<sc_features, sc_prob, sc_others>>

ScoreNext == ScorePredict \/ ScoreReturn

\* The scoring stage is not running.
ScoreParked ==
    /\ sc_pc = "off"
    /\ sc_features = <<>>
    /\ sc_prob = <<0, 1>>
    /\ sc_result = NoResult

(***************************************************************************)
(* Claims about the risk scorer (checked under SpecScore).                 *)
(***************************************************************************)

\* C1: _risk_bucket maps every integer score in 0..100 to LOW below 30, to
\* MODERATE from 30 up to 59 and to HIGH from 60 on, and a returned result
\* carries the bucket of its score; probability 0.42 gives score 42 and
\* MODERATE, 0.91 gives 91 and HIGH, 0.10 gives 10 and LOW.
C1_BucketCutPoints ==
    /\ \A s \in 0..100 :
          /\ s < 30 => RiskBucket(s) = "LOW"
          /\ (30 <= s /\ s < 60) => RiskBucket(s) = "MODERATE"
          /\ s >= 60 => RiskBucket(s) = "HIGH"
    /\ sc_result.set =>
          /\ sc_result.risk_score < 30 => sc_result.risk_bucket = "LOW"
          /\ (30 <= sc_result.risk_score /\ sc_result.risk_score < 60)
                => sc_result.risk_bucket = "MODERATE"
          /\ sc_result.risk_score >= 60 => sc_result.risk_bucket = "HIGH"
          /\ sc_prob = <<42, 100>>
                => sc_result.risk_score = 42 /\ sc_result.risk_bucket = "MODERATE"
          /\ sc_prob = <<91, 100>>
                => sc_result.risk_score = 91 /\ sc_result.risk_bucket = "HIGH"
          /\ sc_prob = <<10, 100>>
                => sc_result.risk_score = 10 /\ sc_result.risk_bucket = "LOW"

\* C1 witness: the pipeline returned for probability 0.42 with a MODERATE bucket.
C1_Witness ==
    /\ sc_pc = "done"
    /\ sc_prob = <<42, 100>>
    /\ sc_result.risk_score = 42
    /\ sc_result.risk_bucket = "MODERATE"

\* C2: for every probability in [0,1] the reported risk_score is an integer
\* in 0..100, it is the integer nearest to probability x 100 (an exact half
\* goes to the even neighbour, as Python's round does), and the reported
\* bucket is the bucket of exactly that reported score.
C2_ScoreIsRoundedAndBucketConsistent ==
    sc_result.set =>
        LET n == sc_result.probability_pd[1]
            d == sc_result.probability_pd[2]
            s == sc_result.risk_score
            e == 100 * n - s * d
        IN  /\ s \in 0..100
            /\ 2 * e <= d /\ -(2 * e) <= d
            /\ (2 * e = d \/ -(2 * e) = d) => s % 2 = 0
            /\ sc_result.risk_bucket =
                  (IF s < 30 THEN "LOW" ELSE IF s < 60 THEN "MODERATE" ELSE "HIGH")

\* C2 witness: a probability whose percentage is an exact half (0.375 ->
\* 37.5) was rounded to the even neighbour 38 and bucketed from that score.
C2_Witness ==
    /\ sc_pc = "done"
    /\ 8 * sc_result.probability_pd[1] = 3 * sc_result.probability_pd[2]
    /\ sc_result.risk_score = 38
    /\ sc_result.risk_bucket = "MODERATE"

\* C3: for each feature of the reference-maximum table the reported status
\* is "normal" when min(1, value/max) < 0.5, "elevated" when it is at least
\* 0.5 and below 0.85, and "high" otherwise, for every value (zero,
\* negative and above the maximum included).
C3_FeatureStatus ==
    sc_result.set =>
        \A key \in SummaryKeys :
            LET v  == sc_features[key]
                m  == FeatureRefMax(key)
                st == sc_result.feature_summary[key].status
                \* min(1, v/m) < 0.5 and < 0.85, with m > 0
                belowHalf == v < m /\ 2 * v < m
                below85   == v < m /\ 20 * v < 17 * m
            IN  /\ belowHalf => st = "normal"
                /\ (~belowHalf /\ below85) => st = "elevated"
                /\ ~below85 => st = "high"

\* C3 witness: one summary holding a negative value reported normal, a value
\* exactly at 0.85 of its maximum reported high, a value just below it
\* reported elevated, and a value of twice the maximum reported high.
C3_Witness ==
    /\ sc_pc = "done"
    /\ sc_features["MDVP:Jitter(%)"] = -5
    /\ sc_result.feature_summary["MDVP:Jitter(%)"].status = "normal"
    /\ sc_features["MDVP:Shimmer"] = 127500
    /\ sc_result.feature_summary["MDVP:Shimmer"].status = "high"
    /\ sc_features["NHR"] = 254999
    /\ sc_result.feature_summary["NHR"].status = "elevated"
    /\ sc_features["HNR"] = 60000000
    /\ sc_result.feature_summary["HNR"].status = "high"

(***************************************************************************)
(* SpecNonlinear: the nonlinear measures applied, in the order             *)
(* extract_all_features calls them, to one drawn signal.                   *)
(***************************************************************************)

\* The fitted slopes drawn for _dfa and _d2 (milli): below, at, inside and
\* above each clamp.
DfaSlopes == {-2000, 299, 300, 1000, 1500, 1501, 4000}

D2Slopes == {-1000, 499, 500, 2500, 10000, 10001, 20000}

NlInit ==
    /\ nl_pc = "spreads"
    /\ nl_sig \in NlSignals
    /\ nl_out = <<>>

NlSpreads ==
    /\ nl_pc = "spreads"
    /\ \E err \in MeanUlps :
          LET sp == Spreads(nl_sig, err)
          IN  nl_out' = nl_out @@ [m \in {"spread1", "spread2"} |->
                                      IF m = "spread1" THEN sp[1] ELSE sp[2]]
    /\ nl_pc' = "ppe"
    /\ UNCHANGED <<nl_sig, nl_others>>

NlPpe ==
    /\ nl_pc = "ppe"
    /\ nl_out' = nl_out @@ ("ppe" :> Ppe(nl_sig))
    /\ nl_pc' = "dfa"
    /\ UNCHANGED <<nl_sig, nl_others>>

NlDfa ==
    /\ nl_pc = "dfa"
    /\ \E slope \in DfaSlopes : nl_out' = nl_out @@ ("dfa" :> Dfa(nl_sig, slope))
    /\ nl_pc' = "rpde"
    /\ UNCHANGED <<nl_sig, nl_others>>

NlRpde ==
    /\ nl_pc = "rpde"
    /\ \E stdErr \in StdUlps : nl_out' = nl_out @@ ("rpde" :> Rpde(nl_sig, stdErr))
    /\ nl_pc' = "d2"
    /\ UNCHANGED <<nl_sig, nl_others>>

NlD2 ==
    /\ nl_pc = "d2"
    /\ \E idx \in D2Samples(Len(Take(nl_sig, D2MaxPts)) - (D2M - 1) * D2Tau) :
       \E slope \in D2Slopes :
          nl_out' = nl_out @@ ("d2" :> D2(nl_sig, idx, slope))
    /\ nl_pc' = "done"
    /\ UNCHANGED <<nl_sig, nl_others>>

NlNext == NlSpreads \/ NlPpe \/ NlDfa \/ NlRpde \/ NlD2

\* No nonlinear measure is being computed.
NlParked ==
    /\ nl_pc = "off"
    /\ nl_sig = <<>>
    /\ nl_out = <<>>

(***************************************************************************)
(* SpecRepeat: _d2 called twice on the same signal in one process, as two  *)
(* analyses of the same audio do.  np.random.choice draws from the global  *)
(* generator of numpy, which nothing in the repository seeds, so each call *)
(* gets whichever sample the generator yields.  The fitted slope is a      *)
(* function of the signal and the sampled rows: a second call that samples *)
(* the same rows fits the same slope.                                      *)
(***************************************************************************)

\* A signal long enough for _d2 to subsample: more than D2MaxSamp rows.
LongLen == D2MaxSamp + D2MinRows

\* A flat contour whose last samples ramp up and fall back.
LongSignal ==
    [i \in 1..LongLen |->
        IF i > LongLen - 10 /\ i <= LongLen - 3 THEN i - (LongLen - 10) ELSE 0]

RepeatSignals == NlSignals \cup {LongSignal}

\* The number of embedded rows of _d2 for a signal.
D2Rows(signal) == Len(Take(signal, D2MaxPts)) - (D2M - 1) * D2Tau

\* The samples drawn for a call: every sample while the rows are not
\* subsampled, else two of the samples np.random.choice can return, the
\* first and the last D2MaxSamp rows.
RepeatSamples(n) ==
    IF n <= D2MaxSamp THEN D2Samples(n)
    ELSE {1..D2MaxSamp, (n - D2MaxSamp + 1)..n}

RepeatInit ==
    /\ nl_pc = "first"
    /\ nl_sig \in RepeatSignals
    /\ nl_out = <<>>

\* The first call of _d2(nl_signal).
RepeatFirst ==
    /\ nl_pc = "first"
    /\ \E idx \in RepeatSamples(D2Rows(nl_sig)) :
       \E slope \in D2Slopes :
          nl_out' = ("first" :> [idx |-> idx, slope |-> slope,
                                 d2 |-> D2(nl_sig, idx, slope)])
    /\ nl_pc' = "second"
    /\ UNCHANGED <<nl_sig, nl_others>>

\* The second call of _d2 on the same signal.
RepeatSecond ==
    /\ nl_pc = "second"
    /\ \E idx \in RepeatSamples(D2Rows(nl_sig)) :
       \E slope \in IF idx = nl_out["first"].idx THEN {nl_out["first"].slope}
                    ELSE D2Slopes :
          nl_out' = nl_out @@ ("second" :> [idx |-> idx, slope |-> slope,
                                            d2 |-> D2(nl_sig, idx, slope)])
    /\ nl_pc' = "done"
    /\ UNCHANGED <<nl_sig, nl_others>>

RepeatNext == RepeatFirst \/ RepeatSecond

(***************************************************************************)
(* SpecExtract: one extractor runs on one clip, call by call, and the      *)
(* vector for the classifier is built from what it returned.  Every call   *)
(* into Praat or librosa may succeed, return a non-finite value or raise;  *)
(* at most MaxFaults of them go wrong in one run.  (An HNR so large that   *)
(* 10 ** (hnr / 10) overflows is not drawn, and a Value stands for its     *)
(* number whatever the float width it is stored in.)                       *)
(***************************************************************************)

MaxFaults == 1

CallSites ==
    {"sound", "pitch", "voiced", "pyin", "pp", "hnr", "load",
     "spreads", "ppe", "dfa", "rpde", "d2"} \cup Range(PitchKeys) \cup PerturbKeys

\* ex_x before the vector is built; afterwards features is the dict the
\* vector was built from, x the vector, err whether building it raised.
NoVector == [set |-> FALSE, features |-> <<>>, err |-> FALSE, x |-> <<>>]

\* The locals before the first statement: val holds fo, fhi, flo, the
\* jitter and shimmer locals, hnr and nhr under their feature names, nl the
\* six nonlinear values.
ExLocals0 ==
    [val       |-> [key \in Range(Uci16Keys) |-> Num(0)],
     pp        |-> FALSE,
     f0_voiced |-> <<>>,
     nl_signal |-> <<>>,
     nl        |-> [key \in NonlinearKeys |-> 0]]

ExInit ==
    /\ ex_fn \in {"uci16", "all22"}
    /\ ex_pc = "sound"
    /\ ex_k = 1
    /\ ex_clip \in Clips
    /\ ex_faults = 0
    /\ ex_loc = ExLocals0
    /\ ex_calls = [c \in CallSites |-> "notrun"]
    /\ ex_status = "running"
    /\ ex_raisedAt = "none"
    /\ ex_result = <<>>
    /\ ex_x = NoVector

Called(site, outcome) == [ex_calls EXCEPT ![site] = outcome]

\* The extractor goes on to statement pc2 with locals loc2.
ExStep(pc2, k2, loc2, calls2, fault) ==
    /\ fault = 1 => ex_faults < MaxFaults
    /\ ex_pc' = pc2
    /\ ex_k' = k2
    /\ ex_loc' = loc2
    /\ ex_calls' = calls2
    /\ ex_faults' = ex_faults + fault
    /\ UNCHANGED <<ex_fn, ex_clip, ex_status, ex_raisedAt, ex_result, ex_x, ex_others>>

\* A call outside every try block raises: the exception leaves the extractor.
ExPropagate(site) ==
    /\ ex_faults < MaxFaults
    /\ ex_pc' = "done"
    /\ ex_status' = "raised"
    /\ ex_raisedAt' = site
    /\ ex_calls' = Called(site, "raise")
    /\ ex_faults' = ex_faults + 1
    /\ UNCHANGED <<ex_fn, ex_k, ex_clip, ex_loc, ex_result, ex_x, ex_others>>

\* snd = parselmouth.Sound(path)
ExSound ==
    /\ ex_pc = "sound"
    /\ \/ ExStep("pitch", 1, ex_loc, Called("sound", "ok"), 0)
       \/ ExPropagate("sound")

\* What "Get mean", "Get maximum" and "Get minimum" return on the clip's
\* pitch object: undefined (NaN) when no frame is voiced.
PraatPitch(clip) ==
    IF Len(clip.f0praat) = 0
    THEN [key \in Range(PitchKeys) |-> NaN]
    ELSE [key \in Range(PitchKeys) |->
            CASE key = "MDVP:Fo(Hz)"  -> Num(SeqMean(clip.f0praat))
              [] key = "MDVP:Fhi(Hz)" -> Num(SeqMax(clip.f0praat))
              [] key = "MDVP:Flo(Hz)" -> Num(SeqMin(clip.f0praat))]

\* loc with fo, fhi and flo set from the function pitch.
WithPitch(loc, pitch) ==
    [loc EXCEPT !.val = [key \in DOMAIN loc.val |->
                            IF key \in DOMAIN pitch THEN pitch[key] ELSE loc.val[key]]]

\* extract_uci16, the pitch try block: any exception in it sets fo, fhi and
\* flo to 0.0.
ExPitchU ==
    /\ ex_fn = "uci16"
    /\ ex_pc = "pitch"
    /\ \/ ExStep("pp", 1, WithPitch(ex_loc, PraatPitch(ex_clip)), Called("pitch", "ok"), 0)
       \/ \E key \in Range(PitchKeys), kind \in NonFinite :
             ExStep("pp", 1,
                    WithPitch(ex_loc, [PraatPitch(ex_clip) EXCEPT ![key] = Special(kind)]),
                    Called(key, kind), 1)
       \/ \E site \in {"pitch", "voiced"} \cup Range(PitchKeys) :
             ExStep("pp", 1,
                    WithPitch(ex_loc, [key \in Range(PitchKeys) |-> Num(0)]),
                    Called(site, "raise"), 1)

\* extract_all_features: "To Pitch (cc)" and "Count voiced frames", outside
\* any try block; fo = fhi = flo = nan.
ExPitchA ==
    /\ ex_fn = "all22"
    /\ ex_pc = "pitch"
    /\ \/ ExStep("stats", 1,
                 WithPitch(ex_loc, [key \in Range(PitchKeys) |-> NaN]),
                 Called("pitch", "ok"), 0)
       \/ \E site \in {"pitch", "voiced"} : ExPropagate(site)

\* extract_all_features: the three pitch statistics when voiced_count > 0,
\* then f0_voiced = f0_array[f0_array > 0].
ExPitchStatsA ==
    /\ ex_fn = "all22"
    /\ ex_pc = "stats"
    /\ LET voiced_count == Len(ex_clip.f0praat)
           loc1 == [ex_loc EXCEPT !.f0_voiced = ex_clip.f0praat]
           sane(pitch) == [key \in Range(PitchKeys) |-> SafeFloatA(pitch[key], NaN)]
       IN  \/ /\ voiced_count = 0
              /\ ExStep("pyin", 1, loc1, Called("voiced", "ok"), 0)
           \/ /\ voiced_count > 0
              /\ ExStep("pp", 1, WithPitch(loc1, sane(PraatPitch(ex_clip))),
                        Called("voiced", "ok"), 0)
           \/ /\ voiced_count > 0
              /\ \E key \in Range(PitchKeys), kind \in NonFinite :
                    ExStep("pp", 1,
                           WithPitch(loc1, sane([PraatPitch(ex_clip) EXCEPT ![key] = Special(kind)])),
                           Called(key, kind), 1)
           \/ /\ voiced_count > 0
              /\ \E key \in Range(PitchKeys) : ExPropagate(key)

\* extract_all_features: the pyin fallback when Praat found no voiced frame.
ExPyin ==
    /\ ex_fn = "all22"
    /\ ex_pc = "pyin"
    /\ LET f0 == ex_clip.f0pyin
           loc1 == [ex_loc EXCEPT !.f0_voiced = f0]
           stats == [key \in Range(PitchKeys) |->
                       CASE key = "MDVP:Fo(Hz)"  -> Num(SeqMean(f0))
                         [] key = "MDVP:Fhi(Hz)" -> Num(SeqMax(f0))
                         [] key = "MDVP:Flo(Hz)" -> Num(SeqMin(f0))]
       IN  \/ ExStep("pp", 1, IF Len(f0) > 0 THEN WithPitch(loc1, stats) ELSE loc1,
                     Called("pyin", "ok"), 0)
           \/ ExPropagate("pyin")

\* "To PointProcess (periodic, cc)" in its try block (pp = None when it
\* raises), then the jitter and shimmer locals set to 0.0.
ExPointProcess ==
    /\ ex_pc = "pp"
    /\ LET loc1 == WithPitch(ex_loc, PerturbInit)
       IN  \/ ExStep("jitter", 1, [loc1 EXCEPT !.pp = TRUE], Called("pp", "ok"), 0)
           \/ ExStep("jitter", 1, [loc1 EXCEPT !.pp = FALSE], Called("pp", "raise"), 1)

\* What an extractor keeps of a query's result: extract_all_features wraps
\* every query in _safe_float, extract_uci16 keeps it raw until it returns.
Store(fn, v) == IF fn = "all22" THEN SafeFloatA(v, Num(0)) ELSE v

\* One query of a family's try block.  The block is skipped when pp is
\* None; an exception leaves it, and the locals not yet assigned keep 0.0.
ExFamily(keys, pcNext) ==
    LET key == keys[ex_k]
        pc2 == IF ex_k = Len(keys) THEN pcNext ELSE ex_pc
        k2  == IF ex_k = Len(keys) THEN 1 ELSE ex_k + 1
    IN  \/ /\ ~ex_loc.pp
           /\ ExStep(pcNext, 1, ex_loc, ex_calls, 0)
        \/ /\ ex_loc.pp
           /\ ExStep(pc2, k2,
                     [ex_loc EXCEPT !.val[key] = Store(ex_fn, Num(RawVal(key)))],
                     Called(key, "ok"), 0)
        \/ /\ ex_loc.pp
           /\ \E kind \in NonFinite :
                 ExStep(pc2, k2,
                        [ex_loc EXCEPT !.val[key] = Store(ex_fn, Special(kind))],
                        Called(key, kind), 1)
        \/ /\ ex_loc.pp
           /\ ExStep(pcNext, 1, ex_loc, Called(key, "raise"), 1)

ExJitter == ex_pc = "jitter" /\ ExFamily(JitterKeys, "shimmer")

ExShimmer == ex_pc = "shimmer" /\ ExFamily(ShimmerKeys, "hnr")

\* hnr = 0.0, then "To Harmonicity (cc)" and "Get mean" in their try block.
ExHnr ==
    /\ ex_pc = "hnr"
    /\ \/ \E h \in HnrValues :
             ExStep("nhr", 1, [ex_loc EXCEPT !.val["HNR"] = Store(ex_fn, Num(h))],
                    Called("hnr", "ok"), 0)
       \/ \E kind \in NonFinite :
             ExStep("nhr", 1, [ex_loc EXCEPT !.val["HNR"] = Store(ex_fn, Special(kind))],
                    Called("hnr", kind), 1)
       \/ ExStep("nhr", 1, [ex_loc EXCEPT !.val["HNR"] = Num(0)], Called("hnr", "raise"), 1)

\* nhr from hnr, by each extractor's own threshold.
ExNhr ==
    /\ ex_pc = "nhr"
    /\ LET hnr == ex_loc.val["HNR"]
       IN  ExStep(IF ex_fn = "all22" THEN "nlsig" ELSE "return", 1,
                  [ex_loc EXCEPT !.val["NHR"] = IF ex_fn = "all22" THEN NhrA(hnr) ELSE NhrU(hnr)],
                  ex_calls, 0)

\* nl_signal: the voiced F0 series when it has 32 frames, else the raw audio.
ExNlSignal ==
    /\ ex_pc = "nlsig"
    /\ \/ /\ Len(ex_loc.f0_voiced) >= NlMinF0Len
          /\ ExStep("spreads", 1, [ex_loc EXCEPT !.nl_signal = ex_loc.f0_voiced], ex_calls, 0)
       \/ /\ Len(ex_loc.f0_voiced) < NlMinF0Len
          /\ ExStep("spreads", 1, [ex_loc EXCEPT !.nl_signal = ex_clip.raw],
                    Called("load", "ok"), 0)
       \/ /\ Len(ex_loc.f0_voiced) < NlMinF0Len
          /\ ExPropagate("load")

\* The series the clips can hand to the nonlinear measures, and each
\* measure tabulated over them.
ExSignals == UNION {{c.f0praat, c.f0pyin, c.raw} : c \in Clips}

ExDfaSlopes == {1000, 4000}

ExD2Slopes == {-1000, 2500}

SpreadsOf == [sig \in ExSignals |-> [err \in MeanUlps |-> Spreads(sig, err)]]

PpeOf == [sig \in ExSignals |-> Ppe(sig)]

DfaOf == [sig \in ExSignals |-> [slope \in ExDfaSlopes |-> Dfa(sig, slope)]]

RpdeOf == [sig \in ExSignals |-> {Rpde(sig, stdErr) : stdErr \in StdUlps}]

D2Of ==
    [sig \in ExSignals |->
        LET samples == D2Samples(Len(Take(sig, D2MaxPts)) - (D2M - 1) * D2Tau)
        IN  {D2(sig, idx, slope) : idx \in samples, slope \in ExD2Slopes}]

\* spread1, spread2 = _spreads(f0_voiced), outside any try block.
ExSpreads ==
    /\ ex_pc = "spreads"
    /\ \/ \E err \in MeanUlps :
             LET sp == SpreadsOf[ex_loc.f0_voiced][err]
             IN  ExStep("ppe", 1,
                        [ex_loc EXCEPT !.nl["spread1"] = sp[1], !.nl["spread2"] = sp[2]],
                        Called("spreads", "ok"), 0)
       \/ ExPropagate("spreads")

\* ppe = _ppe(f0_voiced)
ExPpe ==
    /\ ex_pc = "ppe"
    /\ \/ ExStep("dfa", 1, [ex_loc EXCEPT !.nl["PPE"] = PpeOf[ex_loc.f0_voiced]],
                 Called("ppe", "ok"), 0)
       \/ ExPropagate("ppe")

\* dfa = _dfa(nl_signal)
ExDfa ==
    /\ ex_pc = "dfa"
    /\ \/ \E slope \in ExDfaSlopes :
             ExStep("rpde", 1, [ex_loc EXCEPT !.nl["DFA"] = DfaOf[ex_loc.nl_signal][slope]],
                    Called("dfa", "ok"), 0)
       \/ ExPropagate("dfa")

\* rpde = _rpde(nl_signal)
ExRpde ==
    /\ ex_pc = "rpde"
    /\ \/ \E rpde \in RpdeOf[ex_loc.nl_signal] :
             ExStep("d2", 1, [ex_loc EXCEPT !.nl["RPDE"] = rpde], Called("rpde", "ok"), 0)
       \/ ExPropagate("rpde")

\* d2 = _d2(nl_signal)
ExD2 ==
    /\ ex_pc = "d2"
    /\ \/ \E d2 \in D2Of[ex_loc.nl_signal] :
             ExStep("return", 1, [ex_loc EXCEPT !.nl["D2"] = d2], Called("d2", "ok"), 0)
       \/ ExPropagate("d2")

\* The dict extract_uci16 returns: every value through _safe_float(., 0.0).
Uci16Return(loc) ==
    [i \in DOMAIN Uci16Keys |->
        <<Uci16Keys[i], SafeFloatU(loc.val[Uci16Keys[i]], Num(0))>>]

\* The dict extract_all_features returns: fo, fhi, flo and nhr through
\* _safe_float(., 0.0), the other locals as they are.
All22Return(loc) ==
    [i \in DOMAIN All22Keys |->
        LET key == All22Keys[i]
        IN  <<key,
              IF key \in Range(PitchKeys) \cup {"NHR"} THEN SafeFloatA(loc.val[key], Num(0))
              ELSE IF key \in NonlinearKeys THEN Num(loc.nl[key])
              ELSE loc.val[key]>>]

ExReturn ==
    /\ ex_pc = "return"
    /\ ex_result' = IF ex_fn = "all22" THEN All22Return(ex_loc) ELSE Uci16Return(ex_loc)
    /\ ex_status' = "returned"
    /\ ex_pc' = "vector"
    /\ UNCHANGED <<ex_fn, ex_k, ex_clip, ex_faults, ex_loc, ex_calls, ex_raisedAt,
                   ex_x, ex_others>>

\* run_vowel_pipeline: features_22 = {**features_16, **_DATASET_MEANS}, then
\* predict_from_dict builds the vector.  The table of means lists its keys
\* in one of MeansOrders.
ExVectorPipeline ==
    /\ ex_pc = "vector"
    /\ ex_fn = "uci16"
    /\ \E order \in MeansOrders :
          LET features_22 == DictMerge(ex_result, DatasetMeans(order))
          IN  ex_x' = [set |-> TRUE, features |-> features_22] @@ PredictVector(features_22)
    /\ ex_pc' = "done"
    /\ UNCHANGED <<ex_fn, ex_k, ex_clip, ex_faults, ex_loc, ex_calls, ex_status,
                   ex_raisedAt, ex_result, ex_others>>

\* test_pd_speech: predict_pd_probability builds the vector from the dict
\* of extract_all_features.
ExVectorScript ==
    /\ ex_pc = "vector"
    /\ ex_fn = "all22"
    /\ ex_x' = [set |-> TRUE, features |-> ex_result] @@ PredictVectorGet(ex_result)
    /\ ex_pc' = "done"
    /\ UNCHANGED <<ex_fn, ex_k, ex_clip, ex_faults, ex_loc, ex_calls, ex_status,
                   ex_raisedAt, ex_result, ex_others>>

ExNext ==
    \/ ExSound \/ ExPitchU \/ ExPitchA \/ ExPitchStatsA \/ ExPyin
    \/ ExPointProcess \/ ExJitter \/ ExShimmer \/ ExHnr \/ ExNhr
    \/ ExNlSignal \/ ExSpreads \/ ExPpe \/ ExDfa \/ ExRpde \/ ExD2
    \/ ExReturn \/ ExVectorPipeline \/ ExVectorScript

\* No extractor is running.
ExParked ==
    /\ ex_fn = "off"
    /\ ex_pc = "off"
    /\ ex_k = 1
    /\ ex_clip = [f0praat |-> <<>>, f0pyin |-> <<>>, raw |-> <<>>]
    /\ ex_faults = 0
    /\ ex_loc = ExLocals0
    /\ ex_calls = [c \in CallSites |-> "notrun"]
    /\ ex_status = "off"
    /\ ex_raisedAt = "none"
    /\ ex_result = <<>>
    /\ ex_x = NoVector

(***************************************************************************)
(* SpecReading: one reading-task function runs on one recording.           *)
(* compute_pause_ratio, extract_loudness_variance and                      *)
(* compute_speech_rate_with_elevenlabs are called on their own or, in this *)
(* order, by analyze_audio_file.                                           *)
(***************************************************************************)

\* The longest run of equal frames drawn; longer than min_silence_len.
MaxRunLen == 13

\* The longest clip of alternating frames drawn.
MaxAltLen == 5

RunLens == {0, 1, 2} \cup ((MinSilenceFrames - 1)..MaxRunLen)

\* Amplitudes: digital silence, a level below silence_rms_threshold, and
\* three levels above it, two of them 0.1 % apart.
RunLevels == {0, 100, 1000, 1200}

AltLevels == {100, 1000, 1001, 1200}

Run(level, n) == [i \in 1..n |-> level]

Alt(a, b, n) == [i \in 1..n |-> IF i % 2 = 1 THEN a ELSE b]

\* A three-second recording at one level.
ThreeSeconds == Run(1000, 3000 \div FrameMs)

RdClips ==
    {Run(a, m) \o Run(b, n) : a \in RunLevels, m \in RunLens, b \in RunLevels, n \in RunLens}
    \cup {Run(a, m) \o Run(0, MinSilenceFrames) \o Run(a, n) :
            a \in {1000, 1200}, m \in {1, 2}, n \in {1, 2}}
    \cup {Alt(a, b, n) : a \in AltLevels, b \in AltLevels, n \in 2..MaxAltLen}
    \cup {ThreeSeconds}

\* language_code arguments; <<>> is None (or "").
RdLanguages ==
    {<<>>, <<" ">>, <<"e", "n">>, <<"E", "N", "-", "U", "S">>, <<"h", "i">>,
     <<"t", "e", "-", "I", "N">>, <<"z", "h">>, <<"y", "u", "e">>, Unknown,
     <<" ", "e", "n", " ">>, <<"e", "n", "_", "U", "S">>}

TheQuickBrownFox ==
    <<"t", "h", "e", " ", "q", "u", "i", "c", "k", " ", "b", "r", "o", "w", "n", " ",
      "f", "o", "x">>

\* Texts the transcription service may answer with.
RdTexts ==
    {TheQuickBrownFox,
     <<>>,
     <<" ", " ", "h", "i", " ", "\n", " ", "y", "o", "u", "\n">>,
     <<"'", "d", "o", "n", "'", "t", "'", " ", "'", "'", " ", "9", "_", "a", ".">>,
     <<"U+4F60", "U+597D">>,
     <<"GRAVE", "GRAVE", "GRAVE", "x", "\n", "h", "i", "\n", "GRAVE", "GRAVE", "GRAVE">>,
     <<".", ".", ".">>}

\* pitch_res.pitch_std_hz as reported (units of 0.01 Hz); the pitch tracker
\* is not modelled.
RdPitchStd == {0, 1234}

RdFunctions ==
    {"compute_pause_ratio", "extract_loudness_variance",
     "compute_speech_rate_with_elevenlabs", "analyze_audio_file"}

NoPause == [total_ms |-> 0, silence_ms |-> 0, pause_ratio |-> 0, pause_count |-> 0,
            silent_ranges |-> <<>>, set |-> FALSE]

NoLoud == [rms_mean |-> <<0, 1>>, rms_var |-> <<0, 1>>, std_residue |-> 0,
           frames_total |-> 0, frames_used |-> 0, clipped_ratio |-> <<0, 1>>, set |-> FALSE]

NoRate == [duration_seconds |-> 0, transcript |-> <<>>, word_count |-> 0,
           language_code |-> <<>>, reading_speed_cps |-> 0,
           speech_rate_wpm |-> Special("none"), text |-> <<>>, set |-> FALSE]

NoReading == [pause_ratio |-> 0, pitch_std_hz |-> 0, loudness_cv |-> 0,
             speech_rate_wpm |-> Special("none"), reading_speed_cps |-> 0,
             transcript |-> <<>>, set |-> FALSE]

\* What a record of results holds once it is set.
Set(rec) == [f \in DOMAIN rec \cup {"set"} |-> IF f = "set" THEN TRUE ELSE rec[f]]

\* The results of compute_pause_ratio, computed once per clip.
PauseOf == [clip \in RdClips |-> PauseRatio(clip)]

LoudOf == [clip \in RdClips |-> [residue \in StdResidue |-> LoudnessVariance(clip, residue)]]

\* Where each function starts.
RdEntry(fn) ==
    CASE fn = "compute_pause_ratio" -> "pause"
      [] fn = "extract_loudness_variance" -> "loudness"
      [] fn = "compute_speech_rate_with_elevenlabs" -> "key"
      [] fn = "analyze_audio_file" -> "exists"

RdInit ==
    /\ rd_fn \in RdFunctions
    /\ rd_pc = RdEntry(rd_fn)
    /\ rd_clip \in RdClips
    /\ rd_lang \in IF rd_fn \in {"compute_speech_rate_with_elevenlabs", "analyze_audio_file"}
                   THEN RdLanguages ELSE {<<>>}
    /\ rd_pause = NoPause
    /\ rd_loud = NoLoud
    /\ rd_cv = 0
    /\ rd_rate = NoRate
    /\ rd_requests = 0
    /\ rd_error = "none"
    /\ rd_result = NoReading

\* The statement after pc for a function called by analyze_audio_file; a
\* function called on its own returns.
RdAfter(pc2) == IF rd_fn = "analyze_audio_file" THEN pc2 ELSE "done"

RdRaise(error) ==
    /\ rd_pc' = "raised"
    /\ rd_error' = error

\* analyze_audio_file: the path must exist.
RdExists ==
    /\ rd_pc = "exists"
    /\ \E exists \in BOOLEAN :
          IF exists THEN rd_pc' = "pause" /\ rd_error' = rd_error
          ELSE RdRaise("FileNotFoundError")
    /\ UNCHANGED <<rd_fn, rd_clip, rd_lang, rd_pause, rd_loud, rd_cv, rd_rate,
                   rd_requests, rd_result, rd_others>>

\* compute_pause_ratio(audio_path)
RdPauseRatio ==
    /\ rd_pc = "pause"
    /\ rd_pause' = Set(PauseOf[rd_clip])
    /\ rd_pc' = RdAfter("pitch")
    /\ UNCHANGED <<rd_fn, rd_clip, rd_lang, rd_loud, rd_cv, rd_rate, rd_requests,
                   rd_error, rd_result, rd_others>>

\* extract_pitch_variance(audio_path): Praat reads the file and tracks the
\* pitch, or raises.
RdPitch ==
    /\ rd_pc = "pitch"
    /\ \/ \E std \in RdPitchStd :
            /\ rd_result' = [rd_result EXCEPT !.pitch_std_hz = std]
            /\ rd_pc' = "loudness"
            /\ rd_error' = rd_error
       \/ RdRaise("PraatError") /\ rd_result' = rd_result
    /\ UNCHANGED <<rd_fn, rd_clip, rd_lang, rd_pause, rd_loud, rd_cv, rd_rate,
                   rd_requests, rd_others>>

\* extract_loudness_variance(audio_path)
RdLoudness ==
    /\ rd_pc = "loudness"
    /\ \E residue \in StdResidue : rd_loud' = Set(LoudOf[rd_clip][residue])
    /\ rd_pc' = RdAfter("cv")
    /\ UNCHANGED <<rd_fn, rd_clip, rd_lang, rd_pause, rd_cv, rd_rate, rd_requests,
                   rd_error, rd_result, rd_others>>

\* analyze_audio_file: loudness_cv
RdLoudnessCv ==
    /\ rd_pc = "cv"
    /\ rd_cv' = LoudnessCv(rd_loud)
    /\ rd_pc' = "key"
    /\ UNCHANGED <<rd_fn, rd_clip, rd_lang, rd_pause, rd_loud, rd_rate, rd_requests,
                   rd_error, rd_result, rd_others>>

\* compute_speech_rate_with_elevenlabs: the API key is given or in the
\* environment, or the call fails.
RdApiKey ==
    /\ rd_pc = "key"
    /\ \E api_key \in BOOLEAN :
          IF api_key THEN rd_pc' = "duration" /\ rd_error' = rd_error
          ELSE RdRaise("RuntimeError")
    /\ UNCHANGED <<rd_fn, rd_clip, rd_lang, rd_pause, rd_loud, rd_cv, rd_rate,
                   rd_requests, rd_result, rd_others>>

\* The duration check letting a clip of no length through.
DurationUndefinedMutNegative(total_ms) == total_ms < 0

\* duration_seconds <= 0.0
DurationUndefined(total_ms) == total_ms <= 0

\* compute_speech_rate_with_elevenlabs: the duration of the clip
RdDuration ==
    /\ rd_pc = "duration"
    /\ IF DurationUndefined(Len(rd_clip) * FrameMs)
       THEN RdRaise("ValueError")
       ELSE rd_pc' = "post" /\ rd_error' = rd_error
    /\ UNCHANGED <<rd_fn, rd_clip, rd_lang, rd_pause, rd_loud, rd_cv, rd_rate,
                   rd_requests, rd_result, rd_others>>

\* compute_speech_rate_with_elevenlabs: the request is sent; the service
\* answers 200 with a text, answers another status, or the request fails.
RdPost ==
    /\ rd_pc = "post"
    /\ rd_requests' = rd_requests + 1
    /\ \/ \E text \in RdTexts :
            /\ rd_rate' = [rd_rate EXCEPT !.text = text]
            /\ rd_pc' = "rate"
            /\ rd_error' = rd_error
       \/ \E error \in {"RuntimeError", "RequestException"} :
            RdRaise(error) /\ rd_rate' = rd_rate
    /\ UNCHANGED <<rd_fn, rd_clip, rd_lang, rd_pause, rd_loud, rd_cv, rd_result,
                   rd_others>>

\* compute_speech_rate_with_elevenlabs: the rates of the transcript
RdRate ==
    /\ rd_pc = "rate"
    /\ LET res == SpeechRateResult(Len(rd_clip) * FrameMs, rd_rate.text, rd_lang)
       IN  rd_rate' = [f \in DOMAIN NoRate |->
                          CASE f = "text" -> rd_rate.text
                            [] f = "set" -> TRUE
                            [] OTHER -> res[f]]
    /\ rd_pc' = RdAfter("result")
    /\ UNCHANGED <<rd_fn, rd_clip, rd_lang, rd_pause, rd_loud, rd_cv, rd_requests,
                   rd_error, rd_result, rd_others>>

\* analyze_audio_file: the dict returned.  pause_ratio is rounded again, to
\* three places (units of 0.001).
RdResult ==
    /\ rd_pc = "result"
    /\ rd_result' = [pause_ratio |-> PyRound(rd_pause.pause_ratio, 10),
                     pitch_std_hz |-> rd_result.pitch_std_hz,
                     loudness_cv |-> rd_cv,
                     speech_rate_wpm |-> rd_rate.speech_rate_wpm,
                     reading_speed_cps |-> rd_rate.reading_speed_cps,
                     transcript |-> rd_rate.transcript,
                     set |-> TRUE]
    /\ rd_pc' = "done"
    /\ UNCHANGED <<rd_fn, rd_clip, rd_lang, rd_pause, rd_loud, rd_cv, rd_rate,
                   rd_requests, rd_error, rd_others>>

RdNext ==
    \/ RdExists
    \/ RdPauseRatio
    \/ RdPitch
    \/ RdLoudness
    \/ RdLoudnessCv
    \/ RdApiKey
    \/ RdDuration
    \/ RdPost
    \/ RdRate
    \/ RdResult

\* The reading task while another part runs.
RdParked ==
    /\ rd_fn = "off"
    /\ rd_pc = "off"
    /\ rd_clip = <<>>
    /\ rd_lang = <<>>
    /\ rd_pause = NoPause
    /\ rd_loud = NoLoud
    /\ rd_cv = 0
    /\ rd_rate = NoRate
    /\ rd_requests = 0
    /\ rd_error = "none"
    /\ rd_result = NoReading

(***************************************************************************)
(* SpecService: the inference service (backend/inference).  Requests to    *)
(* /analyze and /generate-summary for one session arrive at the worker     *)
(* slots of the server and run concurrently, one statement at a time.      *)
(* Every call that leaves the process (storage download, audio decoding,   *)
(* feature extraction, transcription, classifier, summary generator, a     *)
(* database write) may raise; database reads succeed.                      *)
(***************************************************************************)

MaxSlots == 2

MaxRequests == 2

SvSlots == 1..MaxSlots

\* ALLOWED_TASK_TYPES.
AllowedTaskTypes == {"SUSTAINED_VOWEL", "READING"}

\* The task_type values requests carry.
SvTaskTypes == AllowedTaskTypes \cup {"COUGH"}

SvRoutes == {"analyze", "summary"}

\* x_inference_secret when the header is absent (None).
NoHeader == "<None>"

SvSecrets == {"", "s3cret"}

SvHeaders == {NoHeader, "", "s3cret", "guess"}

\* if not secret or x_inference_secret != secret: the request is refused.
UnauthorizedMutHeaderOnly(secret, header) == header /= secret

Unauthorized(secret, header) == secret = "" \/ header /= secret

\* current_status == "ANALYZED": the idempotency check.
AlreadyAnalyzedMutNever(status) == FALSE

AlreadyAnalyzed(status) == status = "ANALYZED"

MinDurationMs == 13000

\* _duration_ms: round(len(y) / sr * 1000, 1), in tenths of a millisecond.
DurationTenths(clip) ==
    (clip.samples \div clip.sr) * 10000
        + PyRound((clip.samples % clip.sr) * 10000, clip.sr)

\* duration < MIN_DURATION_MS, the duration in tenths of a millisecond.
TooShortMutInclusive(duration) == duration <= MinDurationMs * 10

TooShort(duration) == duration < MinDurationMs * 10

\* The decoded recordings: 12999.79 ms, 12999.958 ms and 13000 ms at 48 kHz,
\* 15000 ms at 16 kHz.
SvClips ==
    {[samples |-> 623990, sr |-> 48000], [samples |-> 623998, sr |-> 48000],
     [samples |-> 624000, sr |-> 48000], [samples |-> 240000, sr |-> 16000]}

\* The update mark_failed sends.
FailedUpdateMutProcessing == [task_status |-> "PROCESSING", error_code |-> "PIPELINE_ERROR"]

FailedUpdate == [task_status |-> "FAILED", error_code |-> "PIPELINE_ERROR"]

\* get_session_for_summary returns a dict: the row has a risk_score.
SessionReadyMutAlways(row) == TRUE

SessionReady(row) == row.risk_score /= 0

\* A row of session_tasks as the upload leaves it.  analysis_json is the
\* serial number of the request that stored it, 0 for null.
NewTask == [task_status |-> "UPLOADED", analysis_json |-> 0, error_code |-> "none"]

\* The row of test_sessions before any analysis: 0 stands for null.
NewSession == [risk_score |-> 0, gemini_explanation |-> 0]

NoCalls ==
    [download |-> 0, extract |-> 0, transcribe |-> 0, classify |-> 0, generate |-> 0]

\* A worker slot with no request.
SvIdle ==
    [pc |-> "idle", route |-> "none", task |-> "none", header |-> NoHeader,
     serial |-> 0, seen |-> "none", tmp |-> 0, made |-> FALSE, dur |-> 0,
     exc |-> "none", at |-> "none", rejected |-> FALSE, wrote |-> <<>>,
     unwritten |-> {}, calls |-> NoCalls, code |-> 0, error |-> "none",
     skipped |-> FALSE]

\* The request leaves with an HTTP response.
Respond(q, code, error) == [q EXCEPT !.pc = "returned", !.code = code, !.error = error]

\* An exception inside a pipeline: control goes to its finally block.
SvRaise(q, exc, at) == [q EXCEPT !.pc = "finally", !.exc = exc, !.at = at]

\* An exception inside the try block of analyze, after the pipeline.
SvCaught(q, exc, at) == [q EXCEPT !.pc = "mark_failed", !.exc = exc, !.at = at]

SvCall(q, c) == [q EXCEPT !.calls[c] = @ + 1]

SvWrote(q, status) == [q EXCEPT !.wrote = Append(@, status)]

SvUnwritten(q, w) == [q EXCEPT !.unwritten = @ \cup {w}]

SvInit ==
    /\ sv_secret \in SvSecrets
    /\ session_tasks = [t \in AllowedTaskTypes |-> NewTask]
    /\ test_sessions = NewSession
    /\ sv_files = {}
    /\ sv_req = [r \in SvSlots |-> SvIdle]
    /\ sv_count = 0

\* A request arrives at a free slot.
SvArrive(r) ==
    /\ sv_req[r].pc \in {"idle", "returned"}
    /\ sv_count < MaxRequests
    /\ \E route \in SvRoutes, header \in SvHeaders,
          task \in SvTaskTypes :
          /\ route = "summary" => task = "SUSTAINED_VOWEL"
          /\ sv_req' = [sv_req EXCEPT ![r] =
                 [SvIdle EXCEPT !.pc = "auth", !.route = route,
                                !.task = IF route = "summary" THEN "none" ELSE task,
                                !.header = header, !.serial = sv_count + 1]]
    /\ sv_count' = sv_count + 1
    /\ UNCHANGED <<sv_secret, session_tasks, test_sessions, sv_files, sv_others>>

\* analyze 35-37, generate_session_summary 21-23.
SvAuth(r) ==
    /\ sv_req[r].pc = "auth"
    /\ sv_req' = [sv_req EXCEPT ![r] =
          IF Unauthorized(sv_secret, sv_req[r].header) THEN Respond(sv_req[r], 401, "Unauthorized")
          ELSE [sv_req[r] EXCEPT !.pc = IF sv_req[r].route = "analyze" THEN "task_type" ELSE "lookup"]]
    /\ UNCHANGED <<sv_secret, session_tasks, test_sessions, sv_files, sv_count, sv_others>>

\* analyze 45-46.
SvTaskType(r) ==
    /\ sv_req[r].pc = "task_type"
    /\ sv_req' = [sv_req EXCEPT ![r] =
          IF sv_req[r].task \notin AllowedTaskTypes THEN Respond(sv_req[r], 400, "Unknown task_type")
          ELSE [sv_req[r] EXCEPT !.pc = "check"]]
    /\ UNCHANGED <<sv_secret, session_tasks, test_sessions, sv_files, sv_count, sv_others>>

\* analyze 49-52: get_task_status and the early return.
SvCheck(r) ==
    /\ sv_req[r].pc = "check"
    /\ LET status == session_tasks[sv_req[r].task].task_status
       IN  sv_req' = [sv_req EXCEPT ![r] =
              IF AlreadyAnalyzed(status)
              THEN [Respond(sv_req[r], 200, "none") EXCEPT !.seen = status, !.skipped = TRUE]
              ELSE [sv_req[r] EXCEPT !.pc = "mark_processing", !.seen = status]]
    /\ UNCHANGED <<sv_secret, session_tasks, test_sessions, sv_files, sv_count, sv_others>>

\* analyze 55: mark_processing, outside the try block.
SvMarkProcessing(r) ==
    /\ sv_req[r].pc = "mark_processing"
    /\ \/ /\ session_tasks' = [session_tasks EXCEPT
                                  ![sv_req[r].task].task_status = "PROCESSING"]
          /\ sv_req' = [sv_req EXCEPT ![r] =
                           [SvWrote(sv_req[r], "PROCESSING") EXCEPT !.pc = "download"]]
       \/ /\ sv_req' = [sv_req EXCEPT ![r] =
                SvUnwritten(Respond(sv_req[r], 500, "Internal Server Error"), "mark_processing")]
          /\ UNCHANGED session_tasks
    /\ UNCHANGED <<sv_secret, test_sessions, sv_files, sv_count, sv_others>>

\* download_audio, called first in both pipelines.  The request for the
\* file may fail before any file exists; tmp.write may fail after
\* NamedTemporaryFile(delete=False) created it; else the path is returned.
SvDownload(r) ==
    /\ sv_req[r].pc = "download"
    /\ \/ /\ sv_req' = [sv_req EXCEPT ![r] =
                           SvRaise(SvCall(sv_req[r], "download"), "HTTPError", "download")]
          /\ UNCHANGED sv_files
       \/ /\ sv_req' = [sv_req EXCEPT ![r] =
                [SvRaise(SvCall(sv_req[r], "download"), "OSError", "download")
                    EXCEPT !.made = TRUE]]
          /\ sv_files' = sv_files \cup {sv_req[r].serial}
       \/ /\ sv_req' = [sv_req EXCEPT ![r] =
                [SvCall(sv_req[r], "download") EXCEPT !.pc = "duration", !.made = TRUE,
                                             !.tmp = sv_req[r].serial]]
          /\ sv_files' = sv_files \cup {sv_req[r].serial}
    /\ UNCHANGED <<sv_secret, session_tasks, test_sessions, sv_count, sv_others>>

\* duration = _duration_ms(tmp_path).
SvDuration(r) ==
    /\ sv_req[r].pc = "duration"
    /\ \/ sv_req' = [sv_req EXCEPT ![r] = SvRaise(sv_req[r], "LibrosaError", "duration")]
       \/ \E clip \in SvClips :
             sv_req' = [sv_req EXCEPT ![r] =
                 [sv_req[r] EXCEPT !.dur = DurationTenths(clip),
                           !.pc = IF sv_req[r].task = "READING" THEN "gate" ELSE "extract"]]
    /\ UNCHANGED <<sv_secret, session_tasks, test_sessions, sv_files, sv_count, sv_others>>

\* run_reading_pipeline 36-44: the duration gate.
SvGate(r) ==
    /\ sv_req[r].pc = "gate"
    /\ sv_req' = [sv_req EXCEPT ![r] =
          IF TooShort(sv_req[r].dur) THEN [sv_req[r] EXCEPT !.pc = "finally", !.rejected = TRUE]
          ELSE [sv_req[r] EXCEPT !.pc = "extract"]]
    /\ UNCHANGED <<sv_secret, session_tasks, test_sessions, sv_files, sv_count, sv_others>>

\* extract_uci16 (vowel), or the acoustic metrics of analyze_audio_file
\* that run before the transcription (reading).
SvExtract(r) ==
    /\ sv_req[r].pc = "extract"
    /\ \/ sv_req' = [sv_req EXCEPT ![r] =
                        SvRaise(SvCall(sv_req[r], "extract"), "ExtractionError", "extract")]
       \/ sv_req' = [sv_req EXCEPT ![r] =
             [SvCall(sv_req[r], "extract") EXCEPT
                 !.pc = IF sv_req[r].task = "READING" THEN "transcribe" ELSE "classify"]]
    /\ UNCHANGED <<sv_secret, session_tasks, test_sessions, sv_files, sv_count, sv_others>>

\* compute_speech_rate_with_elevenlabs inside analyze_audio_file: one POST
\* to the transcription service; a status other than 200 raises RuntimeError.
SvTranscribe(r) ==
    /\ sv_req[r].pc = "transcribe"
    /\ \/ sv_req' = [sv_req EXCEPT ![r] =
             SvRaise(SvCall(sv_req[r], "transcribe"), "RuntimeError", "transcribe")]
       \/ sv_req' = [sv_req EXCEPT ![r] =
             [SvCall(sv_req[r], "transcribe") EXCEPT !.pc = "finally"]]
    /\ UNCHANGED <<sv_secret, session_tasks, test_sessions, sv_files, sv_count, sv_others>>

\* predict_from_dict(features_22): the classifier.
SvClassify(r) ==
    /\ sv_req[r].pc = "classify"
    /\ \/ sv_req' = [sv_req EXCEPT ![r] =
             SvRaise(SvCall(sv_req[r], "classify"), "ClassifierError", "classify")]
       \/ sv_req' = [sv_req EXCEPT ![r] =
             [SvCall(sv_req[r], "classify") EXCEPT !.pc = "finally"]]
    /\ UNCHANGED <<sv_secret, session_tasks, test_sessions, sv_files, sv_count, sv_others>>

\* The finally block of the pipeline, then the statement of analyze that
\* follows the pipeline's return or exception.
SvFinally(r) ==
    /\ sv_req[r].pc = "finally"
    /\ sv_files' = IF sv_req[r].tmp /= 0 THEN sv_files \ {sv_req[r].tmp} ELSE sv_files
    /\ sv_req' = [sv_req EXCEPT ![r] =
          [sv_req[r] EXCEPT !.pc = IF sv_req[r].exc /= "none" THEN "mark_failed"
                           ELSE IF sv_req[r].rejected THEN "mark_rejected"
                           ELSE IF sv_req[r].task = "READING" THEN "mark_analyzed_reading"
                           ELSE "store_risk"]]
    /\ UNCHANGED <<sv_secret, session_tasks, test_sessions, sv_count, sv_others>>

\* mark_analyzed_vowel, first write: the risk data onto test_sessions.
SvStoreRisk(r) ==
    /\ sv_req[r].pc = "store_risk"
    /\ \/ /\ test_sessions' = [test_sessions EXCEPT !.risk_score = sv_req[r].serial]
          /\ sv_req' = [sv_req EXCEPT ![r] = [sv_req[r] EXCEPT !.pc = "mark_analyzed_vowel"]]
       \/ /\ sv_req' = [sv_req EXCEPT ![r] =
                SvUnwritten(SvCaught(sv_req[r], "APIError", "store_risk"), "risk")]
          /\ UNCHANGED test_sessions
    /\ UNCHANGED <<sv_secret, session_tasks, sv_files, sv_count, sv_others>>

\* mark_analyzed_vowel, second write: the task row; then the 200 response.
SvMarkAnalyzedVowel(r) ==
    /\ sv_req[r].pc = "mark_analyzed_vowel"
    /\ \/ /\ session_tasks' = [session_tasks EXCEPT
                 !["SUSTAINED_VOWEL"].task_status = "ANALYZED",
                 !["SUSTAINED_VOWEL"].analysis_json = sv_req[r].serial]
          /\ sv_req' = [sv_req EXCEPT ![r] =
                           Respond(SvWrote(sv_req[r], "ANALYZED"), 200, "none")]
       \/ /\ sv_req' = [sv_req EXCEPT ![r] =
                SvUnwritten(SvCaught(sv_req[r], "APIError", "mark_analyzed"), "mark_analyzed")]
          /\ UNCHANGED session_tasks
    /\ UNCHANGED <<sv_secret, test_sessions, sv_files, sv_count, sv_others>>

\* mark_analyzed_reading, then the 200 response.
SvMarkAnalyzedReading(r) ==
    /\ sv_req[r].pc = "mark_analyzed_reading"
    /\ \/ /\ session_tasks' = [session_tasks EXCEPT
                 !["READING"].task_status = "ANALYZED",
                 !["READING"].analysis_json = sv_req[r].serial]
          /\ sv_req' = [sv_req EXCEPT ![r] =
                           Respond(SvWrote(sv_req[r], "ANALYZED"), 200, "none")]
       \/ /\ sv_req' = [sv_req EXCEPT ![r] =
                SvUnwritten(SvCaught(sv_req[r], "APIError", "mark_analyzed"), "mark_analyzed")]
          /\ UNCHANGED session_tasks
    /\ UNCHANGED <<sv_secret, test_sessions, sv_files, sv_count, sv_others>>

\* mark_rejected_short_audio, then the 400 response of analyze 72-82.
SvMarkRejected(r) ==
    /\ sv_req[r].pc = "mark_rejected"
    /\ \/ /\ session_tasks' = [session_tasks EXCEPT
                 !["READING"].task_status = "REJECTED_SHORT_AUDIO",
                 !["READING"].error_code = "AUDIO_TOO_SHORT"]
          /\ sv_req' = [sv_req EXCEPT ![r] =
                Respond(SvWrote(sv_req[r], "REJECTED_SHORT_AUDIO"), 400, "AUDIO_TOO_SHORT")]
       \/ /\ sv_req' = [sv_req EXCEPT ![r] =
                SvUnwritten(SvCaught(sv_req[r], "APIError", "mark_rejected"), "mark_rejected")]
          /\ UNCHANGED session_tasks
    /\ UNCHANGED <<sv_secret, test_sessions, sv_files, sv_count, sv_others>>

\* The except block of analyze: mark_failed, then HTTPException(500) whose
\* detail is str(exc).  When mark_failed raises, the exception leaves the
\* handler and the server answers 500 itself.
SvMarkFailed(r) ==
    /\ sv_req[r].pc = "mark_failed"
    /\ \/ /\ session_tasks' = [session_tasks EXCEPT
                 ![sv_req[r].task].task_status = FailedUpdate.task_status,
                 ![sv_req[r].task].error_code = FailedUpdate.error_code]
          /\ sv_req' = [sv_req EXCEPT ![r] =
                Respond(SvWrote(sv_req[r], FailedUpdate.task_status), 500, sv_req[r].exc)]
       \/ /\ sv_req' = [sv_req EXCEPT ![r] =
                SvUnwritten(Respond(sv_req[r], 500, "Internal Server Error"), "mark_failed")]
          /\ UNCHANGED session_tasks
    /\ UNCHANGED <<sv_secret, test_sessions, sv_files, sv_count, sv_others>>

\* generate_session_summary 29-31: get_session_for_summary and the 404.
SvLookup(r) ==
    /\ sv_req[r].pc = "lookup"
    /\ sv_req' = [sv_req EXCEPT ![r] =
          IF SessionReady(test_sessions) THEN [sv_req[r] EXCEPT !.pc = "generate"]
          ELSE Respond(sv_req[r], 404, "No prediction found for this session")]
    /\ UNCHANGED <<sv_secret, session_tasks, test_sessions, sv_files, sv_count, sv_others>>

\* generate_summary: the request to the generator and its parsing.
SvGenerate(r) ==
    /\ sv_req[r].pc = "generate"
    /\ \/ sv_req' = [sv_req EXCEPT ![r] =
             [Respond(SvCall(sv_req[r], "generate"), 500, "HTTPError")
                 EXCEPT !.exc = "HTTPError", !.at = "generate"]]
       \/ sv_req' = [sv_req EXCEPT ![r] =
             [SvCall(sv_req[r], "generate") EXCEPT !.pc = "store_explanation"]]
    /\ UNCHANGED <<sv_secret, session_tasks, test_sessions, sv_files, sv_count, sv_others>>

\* store_gemini_explanation, inside the try block, then the 200 response.
SvStoreExplanation(r) ==
    /\ sv_req[r].pc = "store_explanation"
    /\ \/ /\ test_sessions' = [test_sessions EXCEPT
                                  !.gemini_explanation = sv_req[r].serial]
          /\ sv_req' = [sv_req EXCEPT ![r] = Respond(sv_req[r], 200, "none")]
       \/ /\ sv_req' = [sv_req EXCEPT ![r] =
                [SvUnwritten(Respond(sv_req[r], 500, "APIError"), "explanation")
                    EXCEPT !.exc = "APIError", !.at = "store_explanation"]]
          /\ UNCHANGED test_sessions
    /\ UNCHANGED <<sv_secret, session_tasks, sv_files, sv_count, sv_others>>

\* One statement of one request.
SvStep(r) ==
    \/ SvAuth(r)
    \/ SvTaskType(r)
    \/ SvCheck(r)
    \/ SvMarkProcessing(r)
    \/ SvDownload(r)
    \/ SvDuration(r)
    \/ SvGate(r)
    \/ SvExtract(r)
    \/ SvTranscribe(r)
    \/ SvClassify(r)
    \/ SvFinally(r)
    \/ SvStoreRisk(r)
    \/ SvMarkAnalyzedVowel(r)
    \/ SvMarkAnalyzedReading(r)
    \/ SvMarkRejected(r)
    \/ SvMarkFailed(r)
    \/ SvLookup(r)
    \/ SvGenerate(r)
    \/ SvStoreExplanation(r)

SvNext == \E r \in SvSlots : SvArrive(r) \/ SvStep(r)

\* The service takes no request.
SvParked ==
    /\ sv_secret = ""
    /\ session_tasks = <<>>
    /\ test_sessions = NewSession
    /\ sv_files = {}
    /\ sv_req = <<>>
    /\ sv_count = 0

(***************************************************************************)
(* The specifications: each runs one part of the engine and leaves the     *)
(* variables of the others parked.                                         *)
(***************************************************************************)

InitScore == ScoreInit /\ NlParked /\ ExParked /\ RdParked /\ SvParked

SpecScore == InitScore /\ [][ScoreNext]_vars

InitNonlinear == NlInit /\ ScoreParked /\ ExParked /\ RdParked /\ SvParked

SpecNonlinear == InitNonlinear /\ [][NlNext]_vars

InitRepeat == RepeatInit /\ ScoreParked /\ ExParked /\ RdParked /\ SvParked

SpecRepeat == InitRepeat /\ [][RepeatNext]_vars

InitExtract == ExInit /\ ScoreParked /\ NlParked /\ RdParked /\ SvParked

SpecExtract == InitExtract /\ [][ExNext]_vars

InitReading == RdInit /\ ScoreParked /\ NlParked /\ ExParked /\ SvParked

SpecReading == InitReading /\ [][RdNext]_vars

InitService == SvInit /\ ScoreParked /\ NlParked /\ ExParked /\ RdParked

SpecService == InitService /\ [][SvNext]_vars

\* The server runs every handler it started to its response: each request
\* keeps taking steps (its outgoing calls carry timeouts).
SpecServiceLive == SpecService /\ \A r \in SvSlots : WF_vars(SvStep(r))

(***************************************************************************)
(* Claims about the extractors and the classifier's input (checked under   *)
(* SpecExtract).                                                           *)
(***************************************************************************)

\* What the extractor computed for one of its sixteen acoustic keys: the
\* number the query returned, or 0.0 when it returned no finite number,
\* raised or was never made.
Computed(key) ==
    IF key \in PerturbKeys
    THEN IF ex_calls[key] = "ok" THEN Num(RawVal(key)) ELSE Num(0)
    ELSE IF ex_loc.val[key].k = "num" THEN ex_loc.val[key] ELSE Num(0)

\* C4: whenever extraction completes (silent, unvoiced and too-short clips
\* included) the vector handed to the classifier is built without error
\* from a dict holding exactly the 22 declared keys, and position i of the
\* vector holds the value of the i-th declared key (the extractor's value,
\* or the population mean of a nonlinear key in the vowel pipeline),
\* whatever order the extractor and the table of means inserted them in.
C4_VectorHas22KeysInDeclaredOrder ==
    ex_x.set =>
        /\ ~ex_x.err
        /\ Len(ex_x.features) = 22
        /\ Range(DictKeys(ex_x.features)) = Range(FeatureNames)
        /\ Len(ex_x.x) = 22
        /\ \A i \in DOMAIN FeatureNames :
              LET key == FeatureNames[i]
              IN  ex_x.x[i] =
                    IF key \in NonlinearKeys
                    THEN IF ex_fn = "uci16" THEN Num(DatasetMean(key)) ELSE Num(ex_loc.nl[key])
                    ELSE Computed(key)

\* C4 witness: the vowel pipeline built the vector for the silent clip from
\* a dict whose keys are not in the declared order; the jitter is at its
\* own position and the population mean of PPE is last.
C4_Witness ==
    /\ ex_x.set
    /\ ex_fn = "uci16"
    /\ Len(ex_clip.f0praat) = 0 /\ Len(ex_clip.f0pyin) = 0
    /\ DictKeys(ex_x.features) /= FeatureNames
    /\ ex_x.x[4] = Num(RawVal("MDVP:Jitter(%)"))
    /\ ex_x.x[1] = Num(0)
    /\ ex_x.x[22] = Num(DatasetMean("PPE"))

\* C5: every value of a returned feature dict is a finite number, for the
\* 16 keys of extract_uci16 and the 22 keys of extract_all_features: a
\* measure that evaluated to NaN, +Infinity, -Infinity or a non-number is
\* returned as its default 0.0.
C5_ReturnedValuesFinite ==
    ex_status = "returned" =>
        /\ DictKeys(ex_result) = (IF ex_fn = "uci16" THEN Uci16Keys ELSE All22Keys)
        /\ \A i \in DOMAIN ex_result : ex_result[i][2].k = "num"
        /\ \A key \in Range(PitchKeys) \cup PerturbKeys :
              ex_calls[key] \in NonFinite => DictGet(ex_result, key) = Num(0)
        /\ ex_calls["hnr"] \in NonFinite =>
              DictGet(ex_result, "HNR") = Num(0) /\ DictGet(ex_result, "NHR") = Num(0)

\* C5 witness: extract_uci16 returned 0.0 for an HNR that evaluated to
\* -Infinity, with the sixteen keys all present.
C5_Witness ==
    /\ ex_status = "returned"
    /\ ex_fn = "uci16"
    /\ ex_calls["hnr"] = "-inf"
    /\ Len(ex_result) = 16
    /\ DictGet(ex_result, "HNR") = Num(0)

\* C6: when the point process cannot be built, that failure does not leave
\* the extractor (an extractor that then fails does so at a later call
\* outside the perturbation measures), no perturbation query is made, and
\* all eleven jitter and shimmer values are returned as 0.0.
C6_PointProcessFailureZeroes ==
    ex_calls["pp"] = "raise" =>
        /\ ex_raisedAt /= "pp"
        /\ ex_status = "raised" =>
              ex_raisedAt \in {"load", "spreads", "ppe", "dfa", "rpde", "d2"}
        /\ \A key \in PerturbKeys :
              /\ ex_calls[key] = "notrun"
              /\ ex_loc.val[key] = Num(0)
              /\ ex_status = "returned" => DictGet(ex_result, key) = Num(0)

\* C6 witness: the point process failed, the extractor returned, the eleven
\* perturbation values are 0.0 and the HNR of 20 dB was still measured.
C6_Witness ==
    /\ ex_calls["pp"] = "raise"
    /\ ex_status = "returned"
    /\ \A key \in PerturbKeys : DictGet(ex_result, key) = Num(0)
    /\ DictGet(ex_result, "HNR") = Num(2000)

\* C7: when the query of one jitter or shimmer measure raises, the
\* returned dict holds 0.0 for that measure only: every other perturbation
\* measure was computed and is returned with its own value.
C7_OnlyTheRaisingMeasureIsZero ==
    ex_status = "returned" =>
        \A key \in PerturbKeys :
            ex_calls[key] = "raise" =>
                /\ DictGet(ex_result, key) = Num(0)
                /\ \A other \in PerturbKeys \ {key} :
                      /\ ex_calls[other] /= "notrun"
                      /\ ex_calls[other] = "ok" =>
                            DictGet(ex_result, other) = Num(RawVal(other))

\* What the code does when one query raises: the measures queried before
\* it in the same family keep their values, the raising one and those
\* after it in the family are never queried and stay 0.0, and the other
\* family and HNR are unaffected.
C7_RestOfFamilyIsZero ==
    ex_status = "returned" =>
        \A fam \in {JitterKeys, ShimmerKeys} :
        \A k \in DOMAIN fam :
            ex_calls[fam[k]] = "raise" =>
                /\ \A j \in DOMAIN fam :
                      /\ j > k => ex_calls[fam[j]] = "notrun"
                      /\ j >= k => DictGet(ex_result, fam[j]) = Num(0)
                      /\ (j < k /\ ex_calls[fam[j]] = "ok") =>
                            DictGet(ex_result, fam[j]) = Num(RawVal(fam[j]))
                /\ \A other \in PerturbKeys \ Range(fam) :
                      ex_calls[other] = "notrun" =>
                          \E r \in PerturbKeys \ Range(fam) : ex_calls[r] = "raise"
                /\ ex_calls["hnr"] /= "notrun"

\* A run showing it: "Get jitter (rap)" raised, the two jitter measures
\* before it are returned, PPQ and DDP are 0.0 without having been queried.
C7_RestOfFamilyReached ==
    /\ ex_status = "returned"
    /\ ex_calls["MDVP:RAP"] = "raise"
    /\ DictGet(ex_result, "MDVP:Jitter(Abs)") = Num(RawVal("MDVP:Jitter(Abs)"))
    /\ ex_calls["MDVP:PPQ"] = "notrun" /\ DictGet(ex_result, "MDVP:PPQ") = Num(0)
    /\ ex_calls["Jitter:DDP"] = "notrun" /\ DictGet(ex_result, "Jitter:DDP") = Num(0)
    /\ DictGet(ex_result, "MDVP:Shimmer") = Num(RawVal("MDVP:Shimmer"))

\* C8: in every extractor the returned NHR is 1 / 10^(HNR/10), strictly
\* between 0 and 1, whenever the returned HNR is positive, and 0 whenever
\* it is zero or negative (a non-finite HNR being returned as 0).
C8_NhrFromHnr ==
    ex_status = "returned" =>
        LET hnr == DictGet(ex_result, "HNR").v
            nhr == DictGet(ex_result, "NHR").v
        IN  /\ hnr > 0 => nhr = InvPow10(hnr) /\ 0 < nhr /\ nhr < 100000
            /\ hnr <= 0 => nhr = 0

\* What the code does: extract_uci16 follows the formula from HNR > 0,
\* extract_all_features only from HNR >= 0.1 dB and returns 0 below.
C8_NhrPerExtractor ==
    ex_status = "returned" =>
        LET hnr == DictGet(ex_result, "HNR").v
            nhr == DictGet(ex_result, "NHR").v
            on  == IF ex_fn = "uci16" THEN hnr > 0 ELSE hnr >= 10
        IN  /\ on => nhr = InvPow10(hnr) /\ 0 < nhr /\ nhr < 100000
            /\ ~on => nhr = 0

\* A run showing it: extract_all_features returned HNR 0.05 dB with NHR 0.
C8_SmallHnrReached ==
    /\ ex_status = "returned"
    /\ ex_fn = "all22"
    /\ DictGet(ex_result, "HNR") = Num(5)
    /\ DictGet(ex_result, "NHR") = Num(0)

\* C9: when the computation of one nonlinear measure raises,
\* extract_all_features still returns.
C9_NonlinearFaultTolerant ==
    \A m \in {"spreads", "ppe", "dfa", "rpde", "d2"} :
        ex_calls[m] = "raise" => ex_status /= "raised"

\* What does hold of C9: a measure that hits its degenerate case returns
\* its documented default and the others are still computed: on the clip
\* with three voiced frames the spreads and PPE are 0.0 while DFA, RPDE
\* and D2 are the values of the raw signal.
C9_DegenerateIsIndependent ==
    (ex_status = "returned" /\ ex_fn = "all22") =>
        /\ Len(ex_loc.f0_voiced) < SpreadMinLen =>
              /\ DictGet(ex_result, "spread1") = Num(0)
              /\ DictGet(ex_result, "spread2") = Num(0)
              /\ DictGet(ex_result, "PPE") = Num(0)
        /\ DictGet(ex_result, "RPDE").v \in RpdeOf[ex_loc.nl_signal]
        /\ DictGet(ex_result, "DFA").v \in Range(DfaOf[ex_loc.nl_signal])
        /\ DictGet(ex_result, "D2").v \in D2Of[ex_loc.nl_signal]
        /\ DictGet(ex_result, "PPE") = Num(PpeOf[ex_loc.f0_voiced])

\* A run showing it: the spreads and PPE at their defaults, RPDE computed.
C9_DegenerateReached ==
    /\ ex_status = "returned"
    /\ ex_fn = "all22"
    /\ Len(ex_loc.f0_voiced) = 3
    /\ DictGet(ex_result, "spread1") = Num(0)
    /\ DictGet(ex_result, "PPE") = Num(0)
    /\ DictGet(ex_result, "RPDE").v > 0
    /\ DictGet(ex_result, "RPDE").v /= RpdeDefault

\* C13: in extract_all_features the pyin fallback is invoked if and only if
\* Praat's pitch object has no voiced frame; when pyin finds none either,
\* the emptiness raises nothing (the extraction returns unless a call into
\* Praat or librosa itself raised) and Fo, Fhi and Flo are returned as 0.0.
C13_FallbackIffNoVoicedFrames ==
    ex_fn = "all22" =>
        LET primaryEmpty == Len(ex_clip.f0praat) = 0
            bothEmpty    == primaryEmpty /\ Len(ex_clip.f0pyin) = 0
            pastPitch    == ex_pc \notin {"sound", "pitch", "stats", "pyin", "done"}
        IN  /\ ex_calls["pyin"] /= "notrun" => primaryEmpty
            /\ ex_pc = "pyin" <=> (ex_calls["voiced"] = "ok" /\ ex_calls["pyin"] = "notrun"
                                      /\ primaryEmpty)
            /\ pastPitch => (ex_calls["pyin"] = "ok" <=> primaryEmpty)
            /\ (bothEmpty /\ pastPitch) =>
                  /\ ex_loc.f0_voiced = <<>>
                  /\ \A key \in Range(PitchKeys) : ex_loc.val[key] = NaN
            /\ (bothEmpty /\ ex_pc = "done") =>
                  /\ ex_status = "raised" => ex_calls[ex_raisedAt] = "raise"
                  /\ (\A c \in CallSites : ex_calls[c] /= "raise") => ex_status = "returned"
                  /\ ex_status = "returned" =>
                        \A key \in Range(PitchKeys) : DictGet(ex_result, key) = Num(0)

\* C13 witness: on the silent clip Praat found no voiced frame, pyin was
\* invoked and found none, and the extraction returned Fo = Fhi = Flo = 0.0.
C13_Witness ==
    /\ ex_fn = "all22"
    /\ Len(ex_clip.f0praat) = 0 /\ Len(ex_clip.f0pyin) = 0
    /\ ex_calls["pyin"] = "ok"
    /\ ex_status = "returned"
    /\ \A key \in Range(PitchKeys) : DictGet(ex_result, key) = Num(0)

\* C13, the other side reached: Praat found voiced frames, pyin was never
\* invoked and the extraction returned.
C13_NoFallbackReached ==
    /\ ex_fn = "all22"
    /\ Len(ex_clip.f0praat) > 0
    /\ ex_calls["pyin"] = "notrun"
    /\ ex_status = "returned"
    /\ DictGet(ex_result, "MDVP:Fo(Hz)").v > 0

(***************************************************************************)
(* Claims about the nonlinear measures (checked under SpecNonlinear).      *)
(***************************************************************************)

\* C10: for any finite-length signal, the empty, constant and very short
\* ones included, _dfa returns a value in [0.3, 1.5], _rpde and _ppe return
\* values in [0, 1] and _d2 returns a value in [0.5, 10.0]; the early-return
\* defaults lie inside these bounds too.
C10_NonlinearRanges ==
    /\ "dfa" \in DOMAIN nl_out => (300 <= nl_out.dfa /\ nl_out.dfa <= 1500)
    /\ "ppe" \in DOMAIN nl_out => (0 <= nl_out.ppe /\ nl_out.ppe <= 1000)
    /\ "rpde" \in DOMAIN nl_out => (0 <= nl_out.rpde /\ nl_out.rpde <= 1000)
    /\ "d2" \in DOMAIN nl_out => (500 <= nl_out.d2 /\ nl_out.d2 <= 10000)

\* C10 witness: all four measures returned for one signal, none by an early
\* return: DFA and D2 were clamped at a bound, PPE and RPDE are entropies
\* strictly inside (0, 1).
C10_Witness ==
    /\ nl_pc = "done"
    /\ nl_out.dfa = 1500
    /\ nl_out.d2 = 500
    /\ 0 < nl_out.ppe /\ nl_out.ppe < 1000
    /\ 0 < nl_out.rpde /\ nl_out.rpde < 1000 /\ nl_out.rpde /= 500

\* The voiced F0 series is degenerate for PPE's guard: fewer than 4 points,
\* or a zero log-F0 range.
PpeDegenerate(f0_voiced) ==
    \/ Len(f0_voiced) < 4
    \/ \A i, j \in DOMAIN f0_voiced : LogF0(f0_voiced[i]) = LogF0(f0_voiced[j])

\* C11: spread1 and spread2 are both 0.0 in exactly the cases in which PPE
\* is 0.0 by its guard: fewer than 4 voiced F0 points, or all voiced F0
\* values equal.
C11_SpreadsZeroIffPpeDegenerate ==
    "ppe" \in DOMAIN nl_out =>
        /\ PpeDegenerate(nl_sig) => nl_out.ppe = 0
        /\ (nl_out.spread1 = 0 /\ nl_out.spread2 = 0) <=> PpeDegenerate(nl_sig)

\* What does hold of C11: below 4 points both spreads are exactly 0.0; on
\* an all-equal series spread2 is exactly 0.0 and spread1 is 0.0 only up to
\* the rounding of the mean; on every other series spread1 is negative,
\* and PPE is 0.0 in the degenerate cases only.
C11_SpreadsZeroUpToRounding ==
    "ppe" \in DOMAIN nl_out =>
        /\ Len(nl_sig) < SpreadMinLen => nl_out.spread1 = 0 /\ nl_out.spread2 = 0
        /\ PpeDegenerate(nl_sig) =>
              nl_out.spread2 = 0 /\ nl_out.spread1 \in {-e : e \in MeanUlps}
        /\ ~PpeDegenerate(nl_sig) => nl_out.spread1 < -1
        /\ (nl_out.ppe = 0) <=> PpeDegenerate(nl_sig)

\* A run showing it: an all-equal series of at least 4 points with PPE 0.0
\* and spread1 not 0.0.
C11_RoundedMeanReached ==
    /\ "ppe" \in DOMAIN nl_out
    /\ Len(nl_sig) >= SpreadMinLen
    /\ PpeDegenerate(nl_sig)
    /\ nl_out.ppe = 0
    /\ nl_out.spread1 /= 0
    /\ nl_out.spread2 = 0

\* The embedded rows of a signal for dimension 4 and delay 1, the rows
\* after row i that recur within epsilon = 0.2 * std of it, and the
\* distribution of the gaps between consecutive recurrences, as C12 reads
\* them off the signal.
C12_Recurrences(sig) ==
    LET x    == Take(sig, 2000)
        n    == Len(x) - 3
        cell == {<<i, k>> : i \in 1..n, k \in 0..3}
        s1   == FnSum([c \in cell |-> x[c[1] + c[2]]], cell)
        s2   == FnSum([c \in cell |-> x[c[1] + c[2]] * x[c[1] + c[2]]], cell)
        M    == 4 * n
        d(i, j) == SetMax({Abs(x[i + k] - x[j + k]) : k \in 0..3})
    IN  [i \in 1..(IF n < 200 THEN n ELSE 200) |->
            {j \in (i + 1)..n : 25 * d(i, j) * d(i, j) * M * M < M * s2 - s1 * s1}]

C12_Gaps(rec) ==
    {<<i, a, b>> \in UNION {{<<i, a, b>> : a \in rec[i], b \in rec[i]} : i \in DOMAIN rec} :
        a < b /\ \A c \in rec[i] : c <= a \/ c >= b}

\* C12: _rpde returns 0.5 whenever the signal (capped at 2000 points)
\* gives fewer than 10 embedded rows, or no recurrence period is found;
\* otherwise it returns the entropy of the distribution of recurrence
\* periods divided by log(T_max + 1).  On a constant signal epsilon is zero
\* or a rounding error above zero: no recurrence is found (0.5), or every
\* row recurs at period 1 (entropy 0).
C12_RpdeDefaultOrEntropy ==
    "rpde" \in DOMAIN nl_out =>
        LET n == Len(Take(nl_sig, 2000)) - 3
        IN  IF n < 10 THEN nl_out.rpde = 500
            ELSE IF \A i, j \in DOMAIN nl_sig : nl_sig[i] = nl_sig[j]
                 THEN /\ nl_out.rpde \in {500, 0}
                      /\ nl_sig[1] = 0 => nl_out.rpde = 500
            ELSE LET gaps == C12_Gaps(C12_Recurrences(nl_sig))
                 IN  IF gaps = {} THEN nl_out.rpde = 500
                     ELSE LET T_max == SetMax({g[3] - g[2] : g \in gaps})
                              cnt   == [t \in 1..T_max |->
                                           Cardinality({g \in gaps : g[3] - g[2] = t})]
                          IN  /\ nl_out.rpde =
                                    (1000 * EntropyMilli(cnt, 1..T_max)) \div LnMilli(T_max + 1)
                              /\ 0 <= nl_out.rpde /\ nl_out.rpde <= 1000

\* C12 witness: a signal with at least 10 embedded rows and recurrences of
\* more than one period, whose RPDE is an entropy strictly inside (0, 1).
C12_Witness ==
    /\ "rpde" \in DOMAIN nl_out
    /\ Len(nl_sig) - 3 >= 10
    /\ C12_Gaps(C12_Recurrences(nl_sig)) /= {}
    /\ 0 < nl_out.rpde /\ nl_out.rpde < 1000 /\ nl_out.rpde /= 500

\* C12, the other cases reached: 10 embedded rows exactly and no
\* recurrence found on a signal that is not constant.
C12_NoRecurrenceReached ==
    /\ "rpde" \in DOMAIN nl_out
    /\ Len(nl_sig) - 3 >= 10
    /\ \E i, j \in DOMAIN nl_sig : nl_sig[i] /= nl_sig[j]
    /\ C12_Gaps(C12_Recurrences(nl_sig)) = {}
    /\ nl_out.rpde = 500

\* C10 witness of the defaults: the empty signal returned every default.
C10_DefaultsReached ==
    /\ nl_pc = "done"
    /\ nl_sig = <<>>
    /\ nl_out.dfa = 700 /\ nl_out.rpde = 500 /\ nl_out.d2 = 2000 /\ nl_out.ppe = 0

(***************************************************************************)
(* Claims about the reading-task metrics (checked under SpecReading).      *)
(***************************************************************************)

\* The silence the ranges of a PauseRatioResult add up to (ms), clamped into
\* 0..total_ms: min(1, max(0, silence / total)) as a numerator over total_ms.
C14_ClampedSilence(res, total_ms) ==
    LET ranges == res.silent_ranges
        sil == SeqSum([r \in DOMAIN ranges |-> ranges[r][2] - ranges[r][1]])
    IN  IF sil < 0 THEN 0 ELSE IF sil > total_ms THEN total_ms ELSE sil

\* C14 as stated: compute_pause_ratio returns pause_ratio = silence_seconds /
\* total_seconds clamped into [0, 1] for every clip, and 0.0 with
\* pause_count 0 and no error for a clip of no length.
C14_PauseRatioIsClampedQuotient ==
    rd_pause.set =>
        LET total_ms == Len(rd_clip) * FrameMs
        IN  /\ total_ms = 0 =>
                rd_pause.pause_ratio = 0 /\ rd_pause.pause_count = 0
            /\ total_ms > 0 =>
                rd_pause.pause_ratio * total_ms
                    = 10000 * C14_ClampedSilence(rd_pause, total_ms)
            /\ rd_fn = "compute_pause_ratio" => rd_pc = "done" /\ rd_error = "none"

\* C14 amended: the pause_ratio compute_pause_ratio returns is the clamped
\* quotient silence_seconds / total_seconds rounded to four decimal places
\* (within half of 1e-4 of it, and in [0, 1]); a clip of no length gives 0.0
\* with pause_count 0 and no error.
C14_PauseRatioRoundedToFourPlaces ==
    rd_pause.set =>
        LET total_ms == Len(rd_clip) * FrameMs
            diff == rd_pause.pause_ratio * total_ms
                        - 10000 * C14_ClampedSilence(rd_pause, total_ms)
        IN  /\ total_ms = 0 =>
                rd_pause.pause_ratio = 0 /\ rd_pause.pause_count = 0
            /\ total_ms > 0 =>
                /\ rd_pause.pause_ratio \in 0..10000
                /\ 2 * Abs(diff) <= total_ms
            /\ rd_fn = "compute_pause_ratio" => rd_pc = "done" /\ rd_error = "none"

\* compute_pause_ratio has returned a ratio that four places cannot hold.
C14_Witness ==
    /\ rd_fn = "compute_pause_ratio"
    /\ rd_pc = "done"
    /\ rd_pause.set
    /\ rd_pause.pause_count = 1
    /\ (10000 * rd_pause.silence_ms) % rd_pause.total_ms # 0

\* compute_pause_ratio has returned for a clip of no length.
C14_EmptyClipReached ==
    /\ rd_fn = "compute_pause_ratio"
    /\ rd_pc = "done"
    /\ rd_pause.set
    /\ rd_clip = <<>>

\* The clip is digital silence: every sample is 0.
C15_Silent(clip) == \A i \in DOMAIN clip : clip[i] = 0

\* C15 as stated: for every silent (all-zero) clip of any length > 0, clips
\* shorter than min_silence_len included, compute_pause_ratio with its
\* default settings reports pause_ratio = 1.0.
C15_SilentClipIsAllPause ==
    (rd_pause.set /\ Len(rd_clip) > 0 /\ C15_Silent(rd_clip))
        => rd_pause.pause_ratio = 10000

\* What the code does instead: a silent clip is all pause from
\* min_silence_len on, and has no pause at all when it is shorter.
C15_SilentClipByLength ==
    (rd_pause.set /\ Len(rd_clip) > 0 /\ C15_Silent(rd_clip))
        => IF Len(rd_clip) * FrameMs >= MinSilenceLenMs
           THEN rd_pause.pause_ratio = 10000 /\ rd_pause.pause_count = 1
           ELSE rd_pause.pause_ratio = 0 /\ rd_pause.pause_count = 0

\* compute_pause_ratio has returned for a silent clip shorter than
\* min_silence_len.
C15_ShortSilentClipReached ==
    /\ rd_fn = "compute_pause_ratio"
    /\ rd_pc = "done"
    /\ Len(rd_clip) > 0
    /\ Len(rd_clip) * FrameMs < MinSilenceLenMs
    /\ C15_Silent(rd_clip)

\* C16: extract_loudness_variance does not fail on a clip whose every frame
\* has rms below the silence threshold: it returns rms_mean = rms_std =
\* rms_var = 0, clipped_ratio = 0 and frames_used = 0 with frames_total the
\* number of frames; and in every result 0 <= frames_used <= frames_total.
C16_QuietClipGivesZeros ==
    rd_loud.set =>
        /\ 0 <= rd_loud.frames_used
        /\ rd_loud.frames_used <= rd_loud.frames_total
        /\ rd_fn = "extract_loudness_variance" => rd_pc = "done" /\ rd_error = "none"
        /\ (\A i \in DOMAIN rd_clip : rd_clip[i] < SilenceRmsThreshold) =>
              /\ rd_loud.rms_mean[1] = 0
              /\ rd_loud.rms_var[1] = 0
              /\ rd_loud.std_residue = 0
              /\ rd_loud.clipped_ratio[1] = 0
              /\ rd_loud.frames_used = 0
              /\ rd_loud.frames_total = Len(rd_clip)

\* extract_loudness_variance has returned for a clip of several frames that
\* are not digital silence but all below the threshold.
C16_Witness ==
    /\ rd_fn = "extract_loudness_variance"
    /\ rd_pc = "done"
    /\ rd_loud.set
    /\ Len(rd_clip) > 1
    /\ \A i \in DOMAIN rd_clip : rd_clip[i] > 0 /\ rd_clip[i] < SilenceRmsThreshold
    /\ rd_loud.frames_total = Len(rd_clip)
    /\ rd_loud.frames_used = 0

\* extract_loudness_variance has returned with some frames kept and some
\* skipped.
C16_SomeFramesSkippedReached ==
    /\ rd_loud.set
    /\ rd_loud.frames_used > 0
    /\ rd_loud.frames_used < rd_loud.frames_total

\* The frames of the clip that extract_loudness_variance keeps.
C17_Kept(clip) == SelectSeq(clip, LAMBDA a : a >= SilenceRmsThreshold)

\* Every frame of the clip is kept, and the frames alternate between two
\* different amplitude levels.
C17_Alternates(clip) ==
    /\ Len(clip) >= 2
    /\ clip[1] # clip[2]
    /\ C17_Kept(clip) = clip
    /\ \A i \in DOMAIN clip : clip[i] = clip[2 - (i % 2)]

\* C17 as stated: analyze_audio_file reports loudness_cv = rms_std / rms_mean
\* when rms_mean is non-zero and 0 otherwise; it is 0 for a clip with no
\* usable frames and for one whose kept frames all have the same rms, and
\* > 0 for a clip whose kept frames alternate between two different levels.
\* (cv = std / mean is (cv * sum)^2 = 1000000 * dev in the units held.)
C17_LoudnessCvIsQuotient ==
    rd_result.set =>
        LET sum == rd_loud.rms_mean[1]
            dev == rd_loud.rms_var[1]
            cv == rd_result.loudness_cv
            kept == C17_Kept(rd_clip)
        IN  /\ sum # 0 /\ rd_loud.std_residue = 0 =>
                Mul(cv * sum, cv * sum) = Mul(1000000, dev)
            /\ sum = 0 => cv = 0
            /\ kept = <<>> => cv = 0
            /\ (\A i \in DOMAIN kept : kept[i] = kept[1]) => cv = 0
            /\ C17_Alternates(rd_clip) => cv > 0

\* C17 amended: analyze_audio_file reports loudness_cv = round(rms_std /
\* rms_mean, 3) when rms_mean is non-zero and 0 otherwise; it is 0 for a clip
\* with no usable frames and for one whose kept frames all have the same
\* rms; for a clip whose kept frames alternate between two different levels
\* it is > 0 exactly when rms_std / rms_mean exceeds 0.0005.
C17_LoudnessCvIsRoundedQuotient ==
    rd_result.set =>
        LET sum == rd_loud.rms_mean[1]
            dev == rd_loud.rms_var[1]
            cv == rd_result.loudness_cv
            kept == C17_Kept(rd_clip)
            \* (2 * 1000 * std / mean)^2 against (2 * cv - 1)^2 and (2 * cv + 1)^2
            target == Mul(4000000, dev)
        IN  /\ sum # 0 =>
                /\ cv >= 0
                /\ cv > 0 => LimbLeq(Mul((2 * cv - 1) * sum, (2 * cv - 1) * sum), target)
                /\ LimbLeq(target, Mul((2 * cv + 1) * sum, (2 * cv + 1) * sum))
            /\ sum = 0 => cv = 0
            /\ kept = <<>> => cv = 0
            /\ (\A i \in DOMAIN kept : kept[i] = kept[1]) => cv = 0
            /\ C17_Alternates(rd_clip) =>
                (cv > 0 <=> ~LimbLeq(target, Mul(sum, sum)))

\* analyze_audio_file has returned for a clip alternating between two kept
\* levels 0.1 % apart, whose loudness_cv rounds to 0.
C17_Witness ==
    /\ rd_fn = "analyze_audio_file"
    /\ rd_pc = "done"
    /\ rd_result.set
    /\ C17_Alternates(rd_clip)
    /\ rd_loud.rms_var[1] > 0
    /\ rd_result.loudness_cv = 0

\* analyze_audio_file has returned a loudness_cv above 0 for an alternating
\* clip.
C17_PositiveCvReached ==
    /\ rd_result.set
    /\ C17_Alternates(rd_clip)
    /\ rd_result.loudness_cv > 0

\* analyze_audio_file has returned loudness_cv 0 for kept frames of one
\* level whose rms_std carries a rounding residue.
C17_ResidueReached ==
    /\ rd_result.set
    /\ rd_loud.frames_used > 2
    /\ rd_loud.std_residue = 1
    /\ rd_result.loudness_cv = 0

\* C18: compute_speech_rate_with_elevenlabs raises, and returns no rate,
\* whenever the clip's duration is <= 0; it raises before any request is sent
\* to the transcription service.
C18_NoDurationIsAnError ==
    (/\ rd_fn = "compute_speech_rate_with_elevenlabs"
     /\ Len(rd_clip) * FrameMs <= 0)
        => /\ rd_requests = 0
           /\ ~rd_rate.set
           /\ rd_pc \in {"key", "duration", "raised"}
           /\ rd_pc = "raised" => rd_error \in {"RuntimeError", "ValueError"}

\* compute_speech_rate_with_elevenlabs has raised ValueError at the duration
\* check for a clip of no length, with no request sent.
C18_Witness ==
    /\ rd_fn = "compute_speech_rate_with_elevenlabs"
    /\ rd_clip = <<>>
    /\ rd_pc = "raised"
    /\ rd_error = "ValueError"
    /\ rd_requests = 0

\* For a clip of positive duration the request is sent.
C18_RequestSentReached ==
    /\ rd_fn = "compute_speech_rate_with_elevenlabs"
    /\ rd_clip # <<>>
    /\ rd_requests = 1
    /\ rd_rate.set

\* The language code without the blanks around it.
C19_Trimmed(code) ==
    LET inked == {i \in DOMAIN code : code[i] \notin Whitespace}
    IN  IF inked = {} THEN <<>>
        ELSE SubSeq(code, CHOOSE i \in inked : \A j \in inked : i <= j, SetMax(inked))

\* The primary subtag: the text before the first "-".
C19_Primary(code) ==
    LET t == C19_Trimmed(code)
        dashes == {i \in DOMAIN t : t[i] = "-"}
    IN  IF dashes = {} THEN t
        ELSE SubSeq(t, 1, (CHOOSE i \in dashes : \A j \in dashes : i <= j) - 1)

\* The same letter in either case.
C19_SameLetter(a, b) ==
    \/ a = b
    \/ <<a, b>> \in {<<"E", "e">>, <<"N", "n">>, <<"H", "h">>, <<"I", "i">>}

\* The primary subtag is en, hi or te, whatever the case of its letters.
C19_Supported(code) ==
    LET p == C19_Primary(code)
    IN  \E l \in {<<"e", "n">>, <<"h", "i">>, <<"t", "e">>} :
            Len(p) = Len(l) /\ \A i \in DOMAIN l : C19_SameLetter(p[i], l[i])

\* C19: speech_rate_wpm is a number if and only if the primary subtag of the
\* language code (the text before the first "-", case-insensitive) is en, hi
\* or te; for every other code, and for a missing or blank one, it is None,
\* never 0, while reading_speed_cps is still reported.
C19_WpmOnlyForWordLanguages ==
    rd_rate.set =>
        /\ rd_rate.speech_rate_wpm.k = "num" <=> C19_Supported(rd_lang)
        /\ ~C19_Supported(rd_lang) =>
              /\ rd_rate.speech_rate_wpm = Special("none")
              /\ rd_rate.speech_rate_wpm # Num(0)
        /\ 2 * Abs(rd_rate.reading_speed_cps * Len(rd_clip) * FrameMs
                     - 1000000 * CountChars(rd_rate.transcript))
              <= Len(rd_clip) * FrameMs

\* A rate in words is returned for the code "EN-US".
C19_Witness ==
    /\ rd_rate.set
    /\ rd_lang = <<"E", "N", "-", "U", "S">>
    /\ rd_rate.speech_rate_wpm.k = "num"
    /\ rd_rate.speech_rate_wpm.v > 0

\* With no language code the rate in words is None and the rate in
\* characters is reported.
C19_NoLanguageReached ==
    /\ rd_rate.set
    /\ rd_lang = <<>>
    /\ rd_rate.speech_rate_wpm = Special("none")
    /\ rd_rate.reading_speed_cps > 0

\* A language written without word spaces gets no rate in words.
C19_UnsupportedReached ==
    /\ rd_rate.set
    /\ rd_lang = <<"z", "h">>
    /\ rd_rate.transcript = <<"U+4F60", "U+597D">>
    /\ rd_rate.speech_rate_wpm = Special("none")
    /\ rd_rate.reading_speed_cps > 0

\* The word tokens of a text, counted without the pattern: the maximal runs
\* of word characters and apostrophes that hold at least one word character.
C20_Tokens(t) ==
    LET tok(i) == i >= 1 /\ i <= Len(t) /\ IsTokenChar(t[i])
        \* the run that starts at i reaches j
        reaches(i, j) == \A k \in i..j : tok(k)
        starts == {i \in DOMAIN t : tok(i) /\ ~tok(i - 1)}
    IN  Cardinality({i \in starts :
            \E j \in i..Len(t) : reaches(i, j) /\ t[j] \in Letters \cup Digits \cup {"_"}})

\* The letters and digits of a text.
C20_LettersAndNumbers(t) == Cardinality({i \in DOMAIN t : t[i] \in Letters \cup Digits})

\* C20 as stated: for a supported language word_count is the number of word
\* tokens of the cleaned transcript, speech_rate_wpm = word_count /
\* (duration / 60) and reading_speed_cps = letters and numbers / duration;
\* "the quick brown fox" over 3 seconds gives 4, 80.0 and 16/3.
C20_RatesAreQuotients ==
    (rd_rate.set /\ C19_Supported(rd_lang)) =>
        LET total_ms == Len(rd_clip) * FrameMs
            words == C20_Tokens(rd_rate.transcript)
            chars == C20_LettersAndNumbers(rd_rate.transcript)
        IN  /\ rd_rate.transcript = CleanTranscript(rd_rate.text)
            /\ rd_rate.word_count = words
            /\ rd_rate.speech_rate_wpm.k = "num"
            /\ rd_rate.speech_rate_wpm.v * total_ms = 6000000 * words
            /\ rd_rate.reading_speed_cps * total_ms = 1000000 * chars
            /\ (rd_clip = ThreeSeconds /\ rd_rate.text = TheQuickBrownFox) =>
                  /\ rd_rate.word_count = 4
                  /\ rd_rate.speech_rate_wpm = Num(8000)
                  /\ 3 * rd_rate.reading_speed_cps = 16 * 1000

\* C20 amended: for a supported language word_count is the number of word
\* tokens of the cleaned transcript, speech_rate_wpm is word_count /
\* (duration / 60) rounded to two decimal places and reading_speed_cps is
\* letters and numbers / duration rounded to three; "the quick brown fox"
\* over 3 seconds gives 4, 80.0 and 5.333.
C20_RatesAreRoundedQuotients ==
    (rd_rate.set /\ C19_Supported(rd_lang)) =>
        LET total_ms == Len(rd_clip) * FrameMs
            words == C20_Tokens(rd_rate.transcript)
            chars == C20_LettersAndNumbers(rd_rate.transcript)
        IN  /\ rd_rate.transcript = CleanTranscript(rd_rate.text)
            /\ rd_rate.word_count = words
            /\ rd_rate.speech_rate_wpm.k = "num"
            /\ 2 * Abs(rd_rate.speech_rate_wpm.v * total_ms - 6000000 * words) <= total_ms
            /\ 2 * Abs(rd_rate.reading_speed_cps * total_ms - 1000000 * chars) <= total_ms
            /\ (rd_clip = ThreeSeconds /\ rd_rate.text = TheQuickBrownFox) =>
                  /\ rd_rate.word_count = 4
                  /\ rd_rate.speech_rate_wpm = Num(8000)
                  /\ rd_rate.reading_speed_cps = 5333

\* The rates of "the quick brown fox" over three seconds, in English, have
\* been computed.
C20_Witness ==
    /\ rd_rate.set
    /\ rd_lang = <<"e", "n">>
    /\ rd_clip = ThreeSeconds
    /\ rd_rate.text = TheQuickBrownFox
    /\ rd_rate.word_count = 4
    /\ rd_rate.reading_speed_cps = 5333

\* The words of a transcript with apostrophes, an underscore and
\* punctuation have been counted.
C20_ApostrophesReached ==
    /\ rd_rate.set
    /\ C19_Supported(rd_lang)
    /\ "'" \in Range(rd_rate.transcript)
    /\ rd_rate.word_count = 2
    /\ CountChars(rd_rate.transcript) = 6

(***************************************************************************)
(* Claims about repeated analyses of the same audio.                       *)
(***************************************************************************)

\* C21: two runs of the feature extraction on the same audio give the same
\* D2, whatever was analysed before in the process: when both calls of _d2
\* have returned, the second value equals the first.
C21_SecondRunRepeatsD2 ==
    nl_pc = "done" => nl_out["second"].d2 = nl_out["first"].d2

\* Both calls have returned, the rows were subsampled, and the two samples
\* differ.
C21_SubsampledTwiceReached ==
    /\ nl_pc = "done"
    /\ D2Rows(nl_sig) > D2MaxSamp
    /\ nl_out["second"].idx /= nl_out["first"].idx

\* While _d2 keeps every row (at most D2MaxSamp of them) the two runs agree.
C21_RepeatsWithoutSubsampling ==
    (nl_pc = "done" /\ D2Rows(nl_sig) <= D2MaxSamp)
        => nl_out["second"].d2 = nl_out["first"].d2

(***************************************************************************)
(* Claims about the inference service.                                     *)
(***************************************************************************)

\* The request in slot r was answered after its pipeline failed at step.
C22_FailedAt(r, step) ==
    /\ sv_req[r].pc = "returned"
    /\ sv_req[r].route = "analyze"
    /\ sv_req[r].at = step
    /\ sv_req[r].wrote /= <<>>
    /\ sv_req[r].wrote[Len(sv_req[r].wrote)] = FailedUpdate.task_status

\* The error kind the caller and the task row get: the response's status
\* code and the error_code stored (the detail and error_message carry the
\* free text of the exception).
C22_ErrorKind(r) ==
    [code |-> sv_req[r].code, error_code |-> session_tasks[sv_req[r].task].error_code]

\* C22: a transcription failure and a classifier failure are surfaced as
\* error kinds that differ from each other and from the kind of any other
\* pipeline failure.
C22_FailuresHaveDistinctKinds ==
    \A r1, r2 \in SvSlots :
        \A s1 \in {"transcribe", "classify"} :
        \A s2 \in {"transcribe", "classify", "download", "duration", "extract"} :
            (s1 /= s2 /\ C22_FailedAt(r1, s1) /\ C22_FailedAt(r2, s2))
                => C22_ErrorKind(r1) /= C22_ErrorKind(r2)

\* A transcription failure and a classifier failure have both been answered.
C22_BothFailuresReached ==
    \E r1, r2 \in SvSlots :
        C22_FailedAt(r1, "transcribe") /\ C22_FailedAt(r2, "classify")

\* The collaborator that failed was called once for the request.
C22_FailingCollaboratorCalledOnce ==
    \A r \in SvSlots : \A c \in {"transcribe", "classify"} :
        (sv_req[r] /= SvIdle /\ sv_req[r].at = c) => sv_req[r].calls[c] = 1

\* The statuses a finished analysis leaves.
C23_Final == {"ANALYZED", "REJECTED_SHORT_AUDIO", "FAILED"}

\* C23: an /analyze request that passed the checks and wrote PROCESSING
\* goes on to respond, and by then it has written, after PROCESSING, exactly
\* one of ANALYZED, REJECTED_SHORT_AUDIO and FAILED, unless the write of
\* mark_failed itself failed.
C23_ProcessingEndsInFinalStatus ==
    \A r \in SvSlots :
        (sv_req[r].pc = "download" /\ sv_req[r].wrote = <<"PROCESSING">>)
            ~> (/\ sv_req[r].pc = "returned"
                /\ \/ "mark_failed" \in sv_req[r].unwritten
                   \/ /\ Len(sv_req[r].wrote) = 2
                      /\ sv_req[r].wrote[1] = "PROCESSING"
                      /\ sv_req[r].wrote[2] \in C23_Final)

\* A request responded after storing its result failed and FAILED was written.
C23_Witness ==
    \E r \in SvSlots :
        /\ sv_req[r].pc = "returned"
        /\ sv_req[r].at = "mark_analyzed"
        /\ sv_req[r].wrote = <<"PROCESSING", "FAILED">>

\* A request responded after a rejection was written.
C23_RejectionReached ==
    \E r \in SvSlots :
        /\ sv_req[r].pc = "returned"
        /\ sv_req[r].wrote = <<"PROCESSING", "REJECTED_SHORT_AUDIO">>

\* A request responded while its own last write is PROCESSING: the write of
\* mark_failed failed.
C23_LeftProcessingReached ==
    \E r \in SvSlots :
        /\ sv_req[r].pc = "returned"
        /\ sv_req[r].wrote = <<"PROCESSING">>
        /\ "mark_failed" \in sv_req[r].unwritten

\* C24: a step of the idempotency check that finds the task ANALYZED answers
\* the request with ok and skipped = true, leaves both tables and the
\* temporary files as they are, and the request has downloaded nothing,
\* run no pipeline step and written nothing.
C24_AnalyzedIsSkipped ==
    [][\A r \in SvSlots :
          (/\ sv_req[r].pc = "check"
           /\ session_tasks[sv_req[r].task].task_status = "ANALYZED"
           /\ sv_req'[r] /= sv_req[r])
              => /\ sv_req'[r].pc = "returned"
                 /\ sv_req'[r].code = 200
                 /\ sv_req'[r].skipped
                 /\ sv_req'[r].calls = NoCalls
                 /\ sv_req'[r].wrote = <<>>
                 /\ sv_req'[r].unwritten = {}
                 /\ UNCHANGED <<session_tasks, test_sessions, sv_files>>]_vars

\* A request was skipped because the task was ANALYZED, and the row still
\* holds the result of the earlier request.
C24_Witness ==
    \E r \in SvSlots :
        /\ sv_req[r].pc = "returned"
        /\ sv_req[r].skipped
        /\ sv_req[r].seen = "ANALYZED"
        /\ session_tasks[sv_req[r].task].analysis_json \notin {0, sv_req[r].serial}

\* C25: whatever the interleaving of the requests, a task row that is
\* ANALYZED stays ANALYZED and keeps its stored analysis.
C25_AnalyzedIsStable ==
    [][\A t \in AllowedTaskTypes :
          session_tasks[t].task_status = "ANALYZED"
              => /\ session_tasks'[t].task_status = "ANALYZED"
                 /\ session_tasks'[t].analysis_json = session_tasks[t].analysis_json]_vars

\* Two requests for the same task have both passed the idempotency check
\* and one of them has stored its analysis.
C25_RaceReached ==
    \E r1, r2 \in SvSlots :
        /\ r1 /= r2
        /\ sv_req[r1].task = sv_req[r2].task
        /\ sv_req[r1].pc = "returned" /\ sv_req[r1].wrote = <<"PROCESSING", "ANALYZED">>
        /\ sv_req[r2].pc = "mark_processing"

\* A request that arrives after the task became ANALYZED changes nothing of
\* the row: only requests that read the status before that write to it.
C25_LateRequestsWriteNothing ==
    \A r \in SvSlots :
        (sv_req[r] /= SvIdle /\ sv_req[r].seen = "ANALYZED") => sv_req[r].wrote = <<>>

\* C26: a request whose header does not equal a non-empty configured
\* secret gets no further than the secret check: it is answered 401, has
\* called no pipeline step or external service and has written nothing.
\* With the secret unset this is every request.
C26_NoSecretNoEffect ==
    \A r \in SvSlots :
        (/\ sv_req[r].pc /= "idle"
         /\ (sv_secret = "" \/ sv_req[r].header /= sv_secret))
            => /\ sv_req[r].pc \in {"auth", "returned"}
               /\ sv_req[r].pc = "returned" => sv_req[r].code = 401
               /\ sv_req[r].calls = NoCalls
               /\ sv_req[r].wrote = <<>>
               /\ sv_req[r].unwritten = {}
               /\ ~sv_req[r].made
               /\ sv_req[r].seen = "none"
               /\ \A t \in AllowedTaskTypes : session_tasks[t].analysis_json /= sv_req[r].serial
               /\ test_sessions.risk_score /= sv_req[r].serial
               /\ test_sessions.gemini_explanation /= sv_req[r].serial

\* With the secret unset, a request carrying an empty header was refused.
C26_Witness ==
    \E r \in SvSlots :
        /\ sv_secret = ""
        /\ sv_req[r].pc = "returned"
        /\ sv_req[r].header = ""
        /\ sv_req[r].code = 401

\* With a secret configured, requests with a wrong header and without the
\* header were refused on both routes.
C26_WrongHeaderReached ==
    \E r1, r2 \in SvSlots :
        /\ sv_secret /= ""
        /\ sv_req[r1].pc = "returned" /\ sv_req[r1].route = "analyze"
        /\ sv_req[r1].header = "guess" /\ sv_req[r1].code = 401
        /\ sv_req[r2].pc = "returned" /\ sv_req[r2].route = "summary"
        /\ sv_req[r2].header = NoHeader /\ sv_req[r2].code = 401

\* The pipeline call of the request in slot r has returned or raised.
C27_PipelineLeft(r) ==
    /\ sv_req[r].route = "analyze"
    /\ sv_req[r].calls.download = 1
    /\ sv_req[r].pc \in {"mark_failed", "mark_rejected", "store_risk",
                          "mark_analyzed_vowel", "mark_analyzed_reading", "returned"}

\* C27: once the pipeline call has returned or raised, the temporary file
\* download_audio created for it no longer exists.
C27_TempFileDeleted ==
    \A r \in SvSlots :
        (C27_PipelineLeft(r) /\ sv_req[r].made) => sv_req[r].serial \notin sv_files

\* A pipeline has raised while a temporary file it created still exists.
C27_LeakReached ==
    \E r \in SvSlots :
        /\ C27_PipelineLeft(r)
        /\ sv_req[r].made
        /\ sv_req[r].at = "download"
        /\ sv_req[r].serial \in sv_files

\* A file whose path download_audio returned is deleted on every path.
C27_ReturnedPathDeleted ==
    \A r \in SvSlots :
        (C27_PipelineLeft(r) /\ sv_req[r].tmp /= 0) => sv_req[r].serial \notin sv_files

\* Pipelines have left by a rejection and by an exception of a later step
\* with their files deleted.
C27_LaterPathsReached ==
    \E r1, r2 \in SvSlots :
        /\ C27_PipelineLeft(r1) /\ sv_req[r1].rejected /\ sv_req[r1].tmp /= 0
        /\ C27_PipelineLeft(r2) /\ sv_req[r2].at = "transcribe" /\ sv_req[r2].tmp /= 0
        /\ sv_files = {}

\* The request in slot r is a READING analysis that measured a duration and
\* has been answered.
C28_Measured(r) ==
    /\ sv_req[r].pc = "returned"
    /\ sv_req[r].task = "READING"
    /\ sv_req[r].dur /= 0

\* The request was rejected: nothing extracted or transcribed,
\* REJECTED_SHORT_AUDIO written (or, its write failing, the failure
\* handled), and where it was written the answer is 400 AUDIO_TOO_SHORT.
C28_Rejected(r) ==
    /\ sv_req[r].rejected
    /\ sv_req[r].calls.extract = 0
    /\ sv_req[r].calls.transcribe = 0
    /\ "ANALYZED" \notin Range(sv_req[r].wrote)
    /\ \/ /\ sv_req[r].wrote = <<"PROCESSING", "REJECTED_SHORT_AUDIO">>
          /\ sv_req[r].code = 400
          /\ sv_req[r].error = "AUDIO_TOO_SHORT"
       \/ "mark_rejected" \in sv_req[r].unwritten

\* C28 as stated: a READING recording is rejected exactly when it lasts
\* less than 13000 ms.
C28_RejectedIffShorter ==
    \A r \in SvSlots : \A clip \in SvClips :
        (C28_Measured(r) /\ sv_req[r].dur = DurationTenths(clip))
            => IF clip.samples < 13 * clip.sr THEN C28_Rejected(r)
               ELSE ~sv_req[r].rejected

\* C28: a READING recording is rejected exactly when its duration rounded
\* to a tenth of a millisecond is below 13000 ms; a rejected request runs
\* no extraction and no transcription, writes REJECTED_SHORT_AUDIO and never
\* ANALYZED, and is answered 400 with error AUDIO_TOO_SHORT.
C28_RejectedIffRoundedShorter ==
    \A r \in SvSlots :
        C28_Measured(r)
            => IF sv_req[r].dur < 130000 THEN C28_Rejected(r)
               ELSE ~sv_req[r].rejected

\* A recording of 12999.8 ms was rejected and stored as such, and one of
\* exactly 13000 ms was analysed.
C28_Witness ==
    \E r1, r2 \in SvSlots :
        /\ C28_Measured(r1) /\ sv_req[r1].dur = 129998
        /\ sv_req[r1].code = 400
        /\ session_tasks["READING"].task_status = "REJECTED_SHORT_AUDIO"
        /\ C28_Measured(r2) /\ sv_req[r2].dur = 130000
        /\ sv_req[r2].calls.transcribe = 1

\* A recording shorter than 13000 ms by less than 0.05 ms was analysed.
C28_RoundedUpReached ==
    \E r \in SvSlots :
        /\ C28_Measured(r)
        /\ sv_req[r].dur = DurationTenths([samples |-> 623998, sr |-> 48000])
        /\ sv_req[r].wrote = <<"PROCESSING", "ANALYZED">>

\* C29: in every reachable state the session has a risk_score exactly when
\* its SUSTAINED_VOWEL task is ANALYZED.
C29_RiskIffVowelAnalyzed ==
    (test_sessions.risk_score /= 0)
        <=> (session_tasks["SUSTAINED_VOWEL"].task_status = "ANALYZED")

\* The second write of mark_analyzed_vowel failed after the first stored the
\* risk score, and the request was answered with the task FAILED.
C29_HalfStoredReached ==
    \E r \in SvSlots :
        /\ sv_req[r].pc = "returned"
        /\ sv_req[r].at = "mark_analyzed"
        /\ test_sessions.risk_score = sv_req[r].serial
        /\ session_tasks["SUSTAINED_VOWEL"].task_status = "FAILED"

\* /generate-summary succeeded for a session whose vowel task is FAILED.
C29_SummaryOfFailedReached ==
    \E r \in SvSlots :
        /\ sv_req[r].pc = "returned"
        /\ sv_req[r].route = "summary"
        /\ sv_req[r].code = 200
        /\ test_sessions.gemini_explanation = sv_req[r].serial
        /\ session_tasks["SUSTAINED_VOWEL"].task_status = "FAILED"
        /\ session_tasks["SUSTAINED_VOWEL"].analysis_json = 0

\* An ANALYZED vowel task always has a risk score behind it.
C29_AnalyzedHasRisk ==
    session_tasks["SUSTAINED_VOWEL"].task_status = "ANALYZED"
        => test_sessions.risk_score /= 0

\* C30: the stored explanation changes only by the store step of a request
\* whose generator call returned; a lookup that finds no risk score answers
\* 404 without a generator call, a failed generation answers 500, and both
\* leave test_sessions as it is.
C30_ExplanationOnlyAfterGeneration ==
    [][/\ test_sessions'.gemini_explanation /= test_sessions.gemini_explanation
          => \E r \in SvSlots :
                /\ sv_req[r].pc = "store_explanation"
                /\ sv_req[r].calls.generate = 1
                /\ sv_req[r].exc = "none"
                /\ test_sessions'.gemini_explanation = sv_req[r].serial
                /\ sv_req'[r].code = 200
       /\ \A r \in SvSlots :
             /\ (/\ sv_req[r].pc = "lookup"
                 /\ test_sessions.risk_score = 0
                 /\ sv_req'[r] /= sv_req[r])
                    => /\ sv_req'[r].pc = "returned"
                       /\ sv_req'[r].code = 404
                       /\ sv_req'[r].calls.generate = 0
                       /\ test_sessions' = test_sessions
             /\ (/\ sv_req[r].pc = "generate"
                 /\ sv_req'[r] /= sv_req[r]
                 /\ sv_req'[r].exc /= "none")
                    => /\ sv_req'[r].pc = "returned"
                       /\ sv_req'[r].code = 500
                       /\ test_sessions' = test_sessions]_vars

\* A summary request was answered 500 after the generator failed, with a
\* risk score stored and no explanation.
C30_Witness ==
    \E r \in SvSlots :
        /\ sv_req[r].pc = "returned"
        /\ sv_req[r].route = "summary"
        /\ sv_req[r].at = "generate"
        /\ sv_req[r].code = 500
        /\ test_sessions.risk_score /= 0
        /\ test_sessions.gemini_explanation = 0

\* A summary request was answered 404 without a generator call.
C30_NotFoundReached ==
    \E r \in SvSlots :
        /\ sv_req[r].pc = "returned"
        /\ sv_req[r].route = "summary"
        /\ sv_req[r].code = 404
        /\ sv_req[r].calls.generate = 0

\* A summary request stored its explanation.
C30_StoredReached ==
    \E r \in SvSlots :
        /\ sv_req[r].pc = "returned"
        /\ sv_req[r].code = 200
        /\ test_sessions.gemini_explanation = sv_req[r].serial

====
